---- MODULE Spec2Model ----
(***************************************************************************)
(* valtio-cache: a reactive object graph bound to a synchronous key-value  *)
(* store.  The module models the values of the host language that the      *)
(* engine handles, the three algorithms (deepMerge, plainDeepClone,        *)
(* isPlainField), the two store adapters with their JSON coding, and the   *)
(* orchestration cache() with its change listener.                         *)
(***************************************************************************)
EXTENDS Integers, Sequences, FiniteSets, TLC

(***************************************************************************)
(* Bounds of the model.                                                    *)
(***************************************************************************)
\* assignments application code performs on all Live States together
MaxMut == 2
\* writes to the backing storage made by writers other than the engine
MaxForeign == 1
\* the largest array index for which a property key is recognised as an index
MaxIdx == 2
\* the largest number whose numeral the JSON reader recognises
MaxNum == 6
\* the number of levels to which a graph with a reference cycle is unfolded
MaxDepth == 3

(***************************************************************************)
(* Values of the host language.  A container (object, array, function)     *)
(* carries its own properties in property order, the properties it        *)
(* inherits, and for an array its elements.  A property is an entry        *)
(* [k, val, enum]; val is a value, or an accessor descriptor whose getter  *)
(* returns the data member `get` of the receiver and whose setter assigns  *)
(* the data member `set` ("" when the accessor has no getter / setter).    *)
(***************************************************************************)
Undefined == [t |-> "undefined"]
Null == [t |-> "null"]
Num(n) == [t |-> "number", n |-> n]
Str(s) == [t |-> "string", s |-> s]
Bool(b) == [t |-> "boolean", b |-> b]
Accessor(g, s) == [t |-> "accessor", get |-> g, set |-> s]
Container(t, own, proto, items, id) ==
  [t |-> t, own |-> own, proto |-> proto, items |-> items, id |-> id]
Obj(own) == Container("object", own, <<>>, <<>>, "")
Arr(items) == Container("array", <<>>, <<>>, items, "")
Fn(id) == Container("function", <<>>, <<>>, <<>>, id)
\* an enumerable property and a non-enumerable one
Prop(k, v) == [k |-> k, val |-> v, enum |-> TRUE]
Hidden(k, v) == [k |-> k, val |-> v, enum |-> FALSE]

IsContainer(v) == v.t \in {"object", "array", "function"}
IsArray(v) == v.t = "array"
IsAccessor(d) == d.t = "accessor"
IsCallable(v) == v.t = "function"

\* the typeof operator: null and arrays are "object"
TypeOf(v) ==
  IF v.t \in {"null", "object", "array"} THEN "object" ELSE v.t

\* ToBoolean
Truthy(v) ==
  CASE v.t \in {"undefined", "null"} -> FALSE
    [] v.t = "number" -> v.n # 0
    [] v.t = "string" -> v.s # ""
    [] v.t = "boolean" -> v.b
    [] OTHER -> TRUE

\* canonical array index keys "0", "1", ...
IsIndexKey(k) == \E n \in 0..MaxIdx : ToString(n) = k
IndexOf(k) == CHOOSE n \in 0..MaxIdx : ToString(n) = k

\* position of key k in a property list, 0 when it has none
Position(entries, k) ==
  IF \E i \in 1..Len(entries) : entries[i].k = k
    THEN CHOOSE i \in 1..Len(entries) : entries[i].k = k
    ELSE 0

\* the keys of a property list, in order
KeysOf(entries) == [i \in 1..Len(entries) |-> entries[i].k]

\* k names an element of the array o
IsElement(o, k) ==
  IsArray(o) /\ IsIndexKey(k) /\ IndexOf(k) < Len(o.items)

\* a property descriptor: [found, val, enum]
NoDescriptor == [found |-> FALSE, val |-> Undefined, enum |-> FALSE]
DescriptorAt(entries, i) ==
  IF i = 0 THEN NoDescriptor
  ELSE [found |-> TRUE, val |-> entries[i].val, enum |-> entries[i].enum]

\* Object.getOwnPropertyDescriptor
GetOwnPropertyDescriptor(o, k) ==
  IF ~IsContainer(o) THEN NoDescriptor
  ELSE IF IsElement(o, k)
    THEN [found |-> TRUE, val |-> o.items[IndexOf(k) + 1], enum |-> TRUE]
  ELSE DescriptorAt(o.own, Position(o.own, k))

\* the property the lookup o[k] resolves to: the own one (d) first, then
\* the inherited one
ResolveFrom(o, k, d) ==
  IF d.found \/ ~IsContainer(o) THEN d
  ELSE DescriptorAt(o.proto, Position(o.proto, k))
Resolve(o, k) == ResolveFrom(o, k, GetOwnPropertyDescriptor(o, k))

\* the data member k of o as a getter body reads it
DataOf(d) == IF d.found /\ ~IsAccessor(d.val) THEN d.val ELSE Undefined
DataValue(o, k) == DataOf(Resolve(o, k))

\* the property read o[k] ([[Get]]) of a property that resolves to d
GetFrom(o, d) ==
  IF ~d.found THEN Undefined
  ELSE IF IsAccessor(d.val)
    THEN (IF d.val.get = "" THEN Undefined ELSE DataValue(o, d.val.get))
  ELSE d.val
Get(o, k) == GetFrom(o, Resolve(o, k))

\* key x comes before the index key k in property order
IsBefore(x, k) == IsIndexKey(x) /\ IndexOf(x) < IndexOf(k)

\* own properties with the entry e added in property order: index keys
\* ascending first, then the other keys in insertion order
InsertOwn(own, e) ==
  IF IsIndexKey(e.k)
    THEN SelectSeq(own, LAMBDA x : IsBefore(x.k, e.k)) \o <<e>>
         \o SelectSeq(own, LAMBDA x : ~IsBefore(x.k, e.k))
    ELSE Append(own, e)

\* the own data property at position i (0: not there yet) is defined
PutAt(o, k, v, i) ==
  IF i = 0 THEN [o EXCEPT !.own = InsertOwn(@, Prop(k, v))]
  ELSE [o EXCEPT !.own[i].val = v]

\* defining or overwriting the own data property k of the container o
PutData(o, k, v) ==
  IF IsElement(o, k)
    THEN [o EXCEPT !.items[IndexOf(k) + 1] = v]
  ELSE IF IsArray(o) /\ IsIndexKey(k) /\ IndexOf(k) = Len(o.items)
    THEN [o EXCEPT !.items = Append(@, v)]
  ELSE PutAt(o, k, v, Position(o.own, k))

\* the strict-mode assignment o[k] = v ([[Set]]) to a property that
\* resolves to d: [ok, obj]; ok is FALSE when the assignment throws a
\* TypeError (a primitive receiver, or an accessor without a setter)
SetWith(o, k, v, d) ==
  IF ~IsContainer(o) THEN [ok |-> FALSE, obj |-> o]
  ELSE IF d.found /\ IsAccessor(d.val)
    THEN (IF d.val.set = "" THEN [ok |-> FALSE, obj |-> o]
          ELSE [ok |-> TRUE, obj |-> PutData(o, d.val.set, v)])
  ELSE [ok |-> TRUE, obj |-> PutData(o, k, v)]
Set(o, k, v) == SetWith(o, k, v, Resolve(o, k))

\* the index keys of an array's elements
IndexKeys(items) == [i \in 1..Len(items) |-> ToString(i - 1)]

\* Object.keys: own enumerable string keys in property order
ObjectKeys(o) ==
  IF ~IsContainer(o) THEN <<>>
  ELSE IndexKeys(o.items) \o KeysOf(SelectSeq(o.own, LAMBDA e : e.enum))

\* the keys a for-in loop visits: own enumerable keys, then the inherited
\* enumerable keys that no own property shadows
ForInKeys(o) ==
  IF ~IsContainer(o) THEN <<>>
  ELSE ObjectKeys(o)
       \o KeysOf(SelectSeq(o.proto, LAMBDA e :
                   e.enum /\ ~GetOwnPropertyDescriptor(o, e.k).found))

(***************************************************************************)
(* Snapshot Filter: isPlainField and plainDeepClone.                       *)
(***************************************************************************)
\* a verdict from the own property descriptor alone
PlainGiven_OwnOnly(value, desc) ==
  IF ~desc.found THEN TRUE
  ELSE IF IsAccessor(desc.val)
    THEN ~(desc.val.get # "" \/ desc.val.set # "")
  ELSE ~IsCallable(desc.val)

\* the verdict on a member whose read gives value and whose own property
\* descriptor is desc
PlainGiven(value, desc) ==
  IF IsCallable(value) THEN FALSE
  ELSE IF ~desc.found THEN TRUE
  ELSE IF IsAccessor(desc.val)
    THEN ~(desc.val.get # "" \/ desc.val.set # "")
  ELSE ~IsCallable(desc.val)

isPlainField(target, key) ==
  PlainGiven(Get(target, key), GetOwnPropertyDescriptor(target, key))

RECURSIVE plainDeepClone(_)
RECURSIVE CloneItems(_)
RECURSIVE CloneFields(_, _, _)

\* item && typeof item === 'object' ? plainDeepClone(item) : item
CloneItem(item) ==
  IF Truthy(item) /\ TypeOf(item) = "object" THEN plainDeepClone(item)
  ELSE item

\* value.map(item => ...)
CloneItems(items) ==
  IF items = <<>> THEN <<>>
  ELSE <<CloneItem(Head(items))>> \o CloneItems(Tail(items))

\* what the loop body assigns to result[key] for the member value
CloneValue(value) ==
  IF IsArray(value) THEN Arr(CloneItems(value.items))
  ELSE IF TypeOf(value) # "object" \/ value = Null THEN value
  ELSE plainDeepClone(value)

\* the loop over the plain keys, assigning each into result
CloneFields(target, keys, result) ==
  IF keys = <<>> THEN result
  ELSE CloneFields(target, Tail(keys),
                   PutData(result, Head(keys),
                           CloneValue(Get(target, Head(keys)))))

plainDeepClone(target) ==
  IF ~Truthy(target) THEN target
  ELSE CloneFields(target,
                   SelectSeq(ObjectKeys(target),
                             LAMBDA key : isPlainField(target, key)),
                   Obj(<<>>))

(***************************************************************************)
(* State Merger: deepMerge.  The target is mutated in place; the model     *)
(* returns the target as the call leaves it and whether the call returned  *)
(* normally (ok) or threw.                                                 *)
(***************************************************************************)
\* the data member in which the container read as target[key] lives: key
\* itself, or the member a getter returns
HomeKey(key, d) ==
  IF d.found /\ IsAccessor(d.val) THEN d.val.get ELSE key

\* the inherited data property at position i takes the value child
PutInherited(target, i, child) ==
  IF i # 0 /\ ~IsAccessor(target.proto[i].val)
    THEN [target EXCEPT !.proto[i].val = child]
  ELSE target

\* the container that lives in the data member `at` of target is replaced
\* by its state after a mutation in place
WriteBackAt(target, at, child) ==
  IF GetOwnPropertyDescriptor(target, at).found
    THEN PutData(target, at, child)
  ELSE PutInherited(target, Position(target.proto, at), child)

\* the member becomes a fresh object that holds the merged members
WriteBack_Copy(target, key, child) ==
  IF ~IsContainer(target) THEN target
  ELSE WriteBackAt(target, HomeKey(key, Resolve(target, key)),
                   IF IsContainer(child) THEN [child EXCEPT !.id = ""]
                   ELSE child)

\* the same for the container read as target[key]
WriteBack(target, key, child) ==
  IF ~IsContainer(target) THEN target
  ELSE WriteBackAt(target, HomeKey(key, Resolve(target, key)), child)

RECURSIVE deepMerge(_, _)
RECURSIVE MergeKeys(_, _, _)

\* the loop goes on after the assignment target[key] = value (a)
AfterAssign(target, source, keys, a) ==
  IF a.ok THEN MergeKeys(a.obj, source, Tail(keys))
  ELSE [ok |-> FALSE, obj |-> target]

\* after the recursive call the member is the source's object, not the
\* merged one
AfterRecurse_TakeSource(target, source, keys, key, r) ==
  AfterAssign(target, source, keys, Set(target, key, Get(source, key)))

\* the merged members live in the source's object, which becomes the
\* target member
IntoSource(child, value) ==
  IF IsContainer(child) /\ IsContainer(value)
    THEN [child EXCEPT !.id = value.id]
  ELSE child
AfterRecurse_IntoSource(target, source, keys, key, r) ==
  IF r.ok
    THEN MergeKeys(WriteBack(target, key, IntoSource(r.obj, Get(source, key))),
                   source, Tail(keys))
  ELSE [ok |-> FALSE, obj |-> target]

\* the loop goes on after the recursive call into target[key] (r), whose
\* effect on the nested container stays even when the call threw
AfterRecurse(target, source, keys, key, r) ==
  IF r.ok THEN MergeKeys(WriteBack(target, key, r.obj), source, Tail(keys))
  ELSE [ok |-> FALSE, obj |-> WriteBack(target, key, r.obj)]

\* a loop body in which a member the target has already is left alone
MergeKey_KeepTarget(target, source, keys, key, value) ==
  IF Resolve(target, key).found THEN MergeKeys(target, source, Tail(keys))
  ELSE AfterAssign(target, source, keys, Set(target, key, value))

\* a loop body that assigns every member of source, nested objects too
MergeKey_Shallow(target, source, keys, key, value) ==
  AfterAssign(target, source, keys, Set(target, key, value))

\* a loop body that merges an array into the member the target has
MergeKey_ArraysMerged(target, source, keys, key, value) ==
  IF TypeOf(value) # "object" \/ ~Truthy(Get(target, key))
    THEN AfterAssign(target, source, keys, Set(target, key, value))
  ELSE AfterRecurse(target, source, keys, key,
                    deepMerge(Get(target, key), value))

\* a loop body that assigns a null of source like a primitive
MergeKey_NullAssigned(target, source, keys, key, value) ==
  IF \/ IsArray(value)
     \/ TypeOf(value) # "object"
     \/ value = Null
     \/ ~Truthy(Get(target, key))
    THEN AfterAssign(target, source, keys, Set(target, key, value))
  ELSE AfterRecurse(target, source, keys, key,
                    deepMerge(Get(target, key), value))

\* a loop body that recurses into a falsy member of the target too
MergeKey_NoFalsyCheck(target, source, keys, key, value) ==
  IF IsArray(value) \/ TypeOf(value) # "object"
    THEN AfterAssign(target, source, keys, Set(target, key, value))
  ELSE AfterRecurse(target, source, keys, key,
                    deepMerge(Get(target, key), value))

\* a loop body that assigns a copy of an object or array of source
Copied(value) == IF IsContainer(value) THEN [value EXCEPT !.id = ""] ELSE value
MergeKey_AssignCopy(target, source, keys, key, value) ==
  IF \/ IsArray(value)
     \/ TypeOf(value) # "object"
     \/ ~Truthy(Get(target, key))
    THEN AfterAssign(target, source, keys, Set(target, key, Copied(value)))
  ELSE AfterRecurse(target, source, keys, key,
                    deepMerge(Get(target, key), value))

\* a loop body that skips the members of source the target has no member
\* for
MergeKey_KnownOnly(target, source, keys, key, value) ==
  IF ~Resolve(target, key).found THEN MergeKeys(target, source, Tail(keys))
  ELSE IF \/ IsArray(value)
          \/ TypeOf(value) # "object"
          \/ ~Truthy(Get(target, key))
    THEN AfterAssign(target, source, keys, Set(target, key, value))
  ELSE AfterRecurse(target, source, keys, key,
                    deepMerge(Get(target, key), value))

\* the loop body for key, whose source member is value
MergeKey(target, source, keys, key, value) ==
  IF \/ IsArray(value)
     \/ TypeOf(value) # "object"
     \/ ~Truthy(Get(target, key))
    THEN AfterAssign(target, source, keys, Set(target, key, value))
  ELSE AfterRecurse(target, source, keys, key,
                    deepMerge(Get(target, key), value))

\* a loop that ends after the first key of source
MergeKeys_FirstOnly(target, source, keys) ==
  IF keys = <<>> THEN [ok |-> TRUE, obj |-> target]
  ELSE MergeKey(target, source, <<Head(keys)>>, Head(keys),
                Get(source, Head(keys)))

\* the for-in loop over the keys of source that are still to be visited
MergeKeys(target, source, keys) ==
  IF keys = <<>> THEN [ok |-> TRUE, obj |-> target]
  ELSE MergeKey(target, source, keys, Head(keys), Get(source, Head(keys)))

\* a loop over the keys of target
deepMerge_TargetKeys(target, source) ==
  MergeKeys(target, source, ForInKeys(target))

deepMerge(target, source) == MergeKeys(target, source, ForInKeys(source))

(***************************************************************************)
(* JSON coding.  A text is a sequence of lexemes: a punctuation mark, a    *)
(* quoted string, or a run of unquoted characters (a numeral, true, false, *)
(* null, or anything else a writer put there verbatim).                    *)
(***************************************************************************)
Lit(s) == [tok |-> "lit", s |-> s]
Quoted(s) == [tok |-> "str", s |-> s]
Punct(c) == [tok |-> "punct", s |-> c]

\* the comma that separates a member or element from the one before it
Comma(first) == IF first THEN <<>> ELSE <<Punct(",")>>

RECURSIVE SerializeJSONProperty(_)
RECURSIVE SerializeMembers(_, _, _)
RECURSIVE SerializeElements(_, _)

\* the member key of o, serialised as p, and the members after it
MemberText(o, keys, first, p) ==
  IF ~p.def THEN SerializeMembers(o, Tail(keys), first)
  ELSE Comma(first) \o <<Quoted(Head(keys)), Punct(":")>> \o p.text
       \o SerializeMembers(o, Tail(keys), FALSE)

\* the members of object o for the keys still to be written; first is TRUE
\* until a member has been written
SerializeMembers(o, keys, first) ==
  IF keys = <<>> THEN <<>>
  ELSE MemberText(o, keys, first, SerializeJSONProperty(Get(o, Head(keys))))

\* an element serialised as p; undefined and functions are written as null
ElementText(p) == IF p.def THEN p.text ELSE <<Lit("null")>>

SerializeElements(items, first) ==
  IF items = <<>> THEN <<>>
  ELSE Comma(first) \o ElementText(SerializeJSONProperty(Head(items)))
       \o SerializeElements(Tail(items), FALSE)

\* JSON.stringify: def is FALSE when the result is undefined
SerializeJSONProperty(v) ==
  CASE v.t \in {"undefined", "function"} -> [def |-> FALSE, text |-> <<>>]
    [] v.t = "null" -> [def |-> TRUE, text |-> <<Lit("null")>>]
    [] v.t = "boolean" ->
         [def |-> TRUE, text |-> <<Lit(IF v.b THEN "true" ELSE "false")>>]
    [] v.t = "number" -> [def |-> TRUE, text |-> <<Lit(ToString(v.n))>>]
    [] v.t = "string" -> [def |-> TRUE, text |-> <<Quoted(v.s)>>]
    [] v.t = "array" ->
         [def |-> TRUE,
          text |-> <<Punct("[")>> \o SerializeElements(v.items, TRUE)
                   \o <<Punct("]")>>]
    [] OTHER ->
         [def |-> TRUE,
          text |-> <<Punct("{")>> \o SerializeMembers(v, ObjectKeys(v), TRUE)
                   \o <<Punct("}")>>]

JSONstringify(v) == SerializeJSONProperty(v)

IsNumeral(s) == \E n \in 0..MaxNum : ToString(n) = s
NumeralValue(s) == CHOOSE n \in 0..MaxNum : ToString(n) = s

SyntaxError(ts) == [ok |-> FALSE, val |-> Undefined, rest |-> ts]
Parsed(v, rest) == [ok |-> TRUE, val |-> v, rest |-> rest]

\* an unquoted run of characters read as a JSON literal
ParseLiteral(s, rest) ==
  CASE s = "null" -> Parsed(Null, rest)
    [] s = "true" -> Parsed(Bool(TRUE), rest)
    [] s = "false" -> Parsed(Bool(FALSE), rest)
    [] OTHER ->
         IF IsNumeral(s) THEN Parsed(Num(NumeralValue(s)), rest)
         ELSE SyntaxError(rest)

RECURSIVE ParseValue(_)
RECURSIVE ParseElements(_, _)
RECURSIVE ParseMembers(_, _)

\* the elements go on after the element read as r
AfterElement(ts, acc, r) ==
  IF r.ok THEN ParseElements(r.rest, Append(acc, r.val)) ELSE SyntaxError(ts)

\* after "[" value: the remaining elements up to "]"
ParseElements(ts, acc) ==
  IF ts = <<>> THEN SyntaxError(ts)
  ELSE IF Head(ts) = Punct("]") THEN Parsed(Arr(acc), Tail(ts))
  ELSE IF Head(ts) = Punct(",") THEN AfterElement(ts, acc, ParseValue(Tail(ts)))
  ELSE SyntaxError(ts)

\* the member named key, whose value was read as r, is put into acc
PutMember(ts, acc, key, r) ==
  IF r.ok THEN Parsed(PutData(acc, key, r.val), r.rest) ELSE SyntaxError(ts)

\* one member "key" : value read into the object acc
ParseMember(ts, acc) ==
  IF Len(ts) < 3 \/ ts[1].tok # "str" \/ ts[2] # Punct(":")
    THEN SyntaxError(ts)
  ELSE PutMember(ts, acc, ts[1].s, ParseValue(SubSeq(ts, 3, Len(ts))))

\* the members go on after the member read as m
AfterMember(ts, m) ==
  IF m.ok THEN ParseMembers(m.rest, m.val) ELSE SyntaxError(ts)

\* after "{" member: the remaining members up to "}"
ParseMembers(ts, acc) ==
  IF ts = <<>> THEN SyntaxError(ts)
  ELSE IF Head(ts) = Punct("}") THEN Parsed(acc, Tail(ts))
  ELSE IF Head(ts) = Punct(",") THEN AfterMember(ts, ParseMember(Tail(ts), acc))
  ELSE SyntaxError(ts)

\* the first element of an array, read as r, and the elements after it
FirstElement(ts, r) ==
  IF r.ok THEN ParseElements(r.rest, <<r.val>>) ELSE SyntaxError(ts)

ParseValue(ts) ==
  IF ts = <<>> THEN SyntaxError(ts)
  ELSE CASE Head(ts).tok = "str" -> Parsed(Str(Head(ts).s), Tail(ts))
         [] Head(ts).tok = "lit" -> ParseLiteral(Head(ts).s, Tail(ts))
         [] Head(ts) = Punct("[") ->
              (IF Len(ts) >= 2 /\ ts[2] = Punct("]")
                 THEN Parsed(Arr(<<>>), SubSeq(ts, 3, Len(ts)))
               ELSE FirstElement(ts, ParseValue(Tail(ts))))
         [] Head(ts) = Punct("{") ->
              (IF Len(ts) >= 2 /\ ts[2] = Punct("}")
                 THEN Parsed(Obj(<<>>), SubSeq(ts, 3, Len(ts)))
               ELSE AfterMember(ts, ParseMember(Tail(ts), Obj(<<>>))))
         [] OTHER -> SyntaxError(ts)

\* JSON.parse: the whole text must be one value
WholeText(r) ==
  IF r.ok /\ r.rest = <<>> THEN [ok |-> TRUE, val |-> r.val]
  ELSE [ok |-> FALSE, val |-> Undefined]
JSONparse(text) == WholeText(ParseValue(text))

(***************************************************************************)
(* Persistent Store Adapter.  The backing facility maps a key to a text    *)
(* or to nothing.  A string handed to the facility verbatim is one run of  *)
(* unquoted characters (no lexeme at all for the empty string).            *)
(***************************************************************************)
Absent == [present |-> FALSE, text |-> <<>>]
Item(text) == [present |-> TRUE, text |-> text]
RawText(s) == IF s = "" THEN <<>> ELSE <<Lit(s)>>

LocalStorageDB == [t |-> "db", kind |-> "LocalStorageDB"]
DumbDb == [t |-> "db", kind |-> "DumbDb"]
\* an ISyncDB of the caller whose get returns null and whose set throws
\* (a store that is full, or closed)
ThrowingDb == [t |-> "db", kind |-> "ThrowingDb"]

\* a get that returns null for every falsy value it decodes
FalsyAsNull(r) == IF r.ok /\ ~Truthy(r.val) THEN [r EXCEPT !.val = Null] ELSE r
LocalStorageDB_get_OrNull(store, key) ==
  IF ~store[key].present THEN [ok |-> TRUE, val |-> Null]
  ELSE FalsyAsNull(JSONparse(store[key].text))

\* LocalStorageDB.get: [ok, val]; ok is FALSE when JSON.parse throws
LocalStorageDB_get(store, key) ==
  IF ~store[key].present THEN [ok |-> TRUE, val |-> Null]
  ELSE IF store[key].text = <<>> THEN [ok |-> TRUE, val |-> Str("")]
  ELSE JSONparse(store[key].text)

\* the string that setItem stores for the result p of JSON.stringify
StoredText(p) == IF p.def THEN p.text ELSE RawText("undefined")

\* a set that leaves a slot alone once it holds an item
LocalStorageDB_set_IfAbsent(store, key, value) ==
  IF store[key].present THEN store
  ELSE [store EXCEPT ![key] =
          Item(IF TypeOf(value) # "string" THEN StoredText(JSONstringify(value))
               ELSE RawText(value.s))]

\* a set that encodes every value, strings too
LocalStorageDB_set_EncodeAll(store, key, value) ==
  [store EXCEPT ![key] = Item(StoredText(JSONstringify(value)))]

\* LocalStorageDB.set: the backing facility after the write
LocalStorageDB_set(store, key, value) ==
  [store EXCEPT ![key] =
     Item(IF TypeOf(value) # "string" THEN StoredText(JSONstringify(value))
          ELSE RawText(value.s))]

DumbDb_get(store, key) == [ok |-> TRUE, val |-> Null]
DumbDb_set(store, key, value) == store

\* db.get and db.set dispatched on the adapter
DbGet(db, store, key) ==
  IF db.kind = "LocalStorageDB" THEN LocalStorageDB_get(store, key)
  ELSE DumbDb_get(store, key)
DbSet(db, store, key, value) ==
  IF db.kind = "LocalStorageDB" THEN LocalStorageDB_set(store, key, value)
  ELSE DumbDb_set(store, key, value)

\* db.set throws instead of returning
DbSetThrows(db) == db.kind = "ThrowingDb"

\* isOnServer and injectDb; win tells whether a window object exists
isOnServer(win) == ~win
injectDb(win) == IF isOnServer(win) THEN DumbDb ELSE LocalStorageDB

(***************************************************************************)
(* Cache Orchestrator: the options of a call.                              *)
(***************************************************************************)
DEFAULT_PREFIX == "valtio/v1.0/"

\* an option defaulted with || : a falsy value given counts as not given
Option_OrDefault(given, default) == IF Truthy(given) THEN given ELSE default

\* a destructured option with its default
Option(given, default) == IF given = Undefined THEN default ELSE given

\* typeof keyOrOptions === 'string' ? {key: keyOrOptions} : keyOrOptions
OptionsOf(keyOrOptions) ==
  IF TypeOf(keyOrOptions) = "string" THEN Obj(<<Prop("key", keyOrOptions)>>)
  ELSE keyOrOptions

\* the destructuring at the head of cache()
DestructureOptions(options, win) ==
  [key |-> Get(options, "key"),
   prefix |-> Option(Get(options, "prefix"), Str(DEFAULT_PREFIX)),
   skipCache |-> Option(Get(options, "skipCache"), Bool(FALSE)),
   db |-> Option(Get(options, "db"), injectDb(win)),
   proxyFunction |-> Option(Get(options, "proxyFunction"), Fn("proxy")),
   subscribeFunction |->
     Option(Get(options, "subscribeFunction"), Fn("subscribe"))]
Destructure(keyOrOptions, win) ==
  DestructureOptions(OptionsOf(keyOrOptions), win)

\* the template literal `${prefix}${key}`
FullKey(opt) == opt.prefix.s \o opt.key.s

(***************************************************************************)
(* The inputs of the model: the objects callers construct, the calls they  *)
(* make, the assignments application code performs on a Live State, and    *)
(* the texts other writers leave in the backing facility.                  *)
(***************************************************************************)
Orchs == {"A", "B"}

\* { count: 0, name: 'n', cfg: { theme: 1, size: 1 } }
Profile ==
  Obj(<<Prop("count", Num(0)), Prop("name", Str("n")),
        Prop("cfg", Obj(<<Prop("theme", Num(1)), Prop("size", Num(1))>>))>>)
\* an instance of a class that declares a field, a getter/setter pair and a
\* method (both on the prototype, not enumerable), extended with an own
\* getter and an own method:
\* { count: 0, get view() { return this.count }, inc() {..} }
Widget ==
  Container("object",
            <<Prop("count", Num(0)), Prop("view", Accessor("count", "")),
              Prop("inc", Fn("inc"))>>,
            <<Hidden("total", Accessor("count", "count")),
              Hidden("reset", Fn("reset"))>>,
            <<>>, "")

\* the calls cache(keyOrOptions, initialObject) that callers make
StringCall == [keyOrOptions |-> Str("k"), initialObject |-> Profile]
WidgetCall ==
  [keyOrOptions |-> Obj(<<Prop("key", Str("k")), Prop("db", LocalStorageDB)>>),
   initialObject |-> Widget]
BareKeyCall ==
  [keyOrOptions |-> Obj(<<Prop("key", Str("k")), Prop("prefix", Str("")),
                          Prop("db", LocalStorageDB)>>),
   initialObject |-> Profile]
EmptyKeyCall ==
  [keyOrOptions |-> Obj(<<Prop("key", Str(""))>>), initialObject |-> Profile]
SkipCall ==
  [keyOrOptions |-> Obj(<<Prop("key", Str("k")), Prop("skipCache", Bool(TRUE)),
                          Prop("db", LocalStorageDB)>>),
   initialObject |-> Widget]
FailingCall ==
  [keyOrOptions |-> Obj(<<Prop("key", Str("k")), Prop("db", ThrowingDb)>>),
   initialObject |-> Profile]
Calls ==
  {StringCall, WidgetCall, BareKeyCall, EmptyKeyCall, SkipCall, FailingCall}
\* the calls made when two orchestrations run side by side
PairCalls == {StringCall, WidgetCall}

\* the assignments state.path = value of application code
SetCount == [path |-> <<"count">>, value |-> Num(5)]
SetTheme == [path |-> <<"cfg", "theme">>, value |-> Num(2)]
SetCfgNull == [path |-> <<"cfg">>, value |-> Null]
SetExtra == [path |-> <<"extra">>, value |-> Str("x")]
SetList == [path |-> <<"list">>, value |-> Arr(<<Num(2), Fn("f")>>)]
SetInc == [path |-> <<"inc">>, value |-> Num(5)]
Assignments == {SetCount, SetTheme, SetCfgNull, SetExtra, SetList, SetInc}
PairAssignments == {SetCount, SetTheme, SetCfgNull, SetInc}

\* the slot other writers use, and what they write:
\* {"count":4,"extra":"x","cfg":{"theme":2,"lang":"x"}}
StoredProfile ==
  <<Punct("{"), Quoted("count"), Punct(":"), Lit("4"), Punct(","),
    Quoted("extra"), Punct(":"), Quoted("x"), Punct(","),
    Quoted("cfg"), Punct(":"), Punct("{"), Quoted("theme"), Punct(":"),
    Lit("2"), Punct(","), Quoted("lang"), Punct(":"), Quoted("x"),
    Punct("}"), Punct("}")>>
\* hello
StoredGarbage == <<Lit("hello")>>
\* {"count":3,"name":{"a":1}}
StoredMisfit ==
  <<Punct("{"), Quoted("count"), Punct(":"), Lit("3"), Punct(","),
    Quoted("name"), Punct(":"), Punct("{"), Quoted("a"), Punct(":"),
    Lit("1"), Punct("}"), Punct("}")>>
ForeignKeys == {DEFAULT_PREFIX \o "k"}
ForeignTexts == {StoredProfile, StoredGarbage, StoredMisfit}
PairTexts == {StoredProfile}

\* the keys of the backing facility that the model touches
StoreKeys ==
  ForeignKeys \cup
  { FullKey(Destructure(c.keyOrOptions, w)) : c \in Calls, w \in BOOLEAN }

(***************************************************************************)
(* State.                                                                  *)
(***************************************************************************)
VARIABLES
  window,    \* whether the environment has a window object
  storage,   \* the backing facility (localStorage): key -> item
  pc,        \* per orchestration: "new", "live" (cache returned), "failed"
  call,      \* per orchestration: the arguments of its cache() call
  initial,   \* per orchestration: the caller's initial object, as it is now
  live,      \* per orchestration: the Live State
  listening, \* per orchestration: a change listener is registered
  pending,   \* per orchestration: a change notification is due
  trace,     \* per orchestration: what spies on db, proxyFunction and
             \* subscribeFunction have recorded
  writes,    \* per key: how often a spy on the facility saw it written
  nmut,      \* per orchestration: assignments performed so far
  nforeign,  \* foreign writes performed so far
  direct     \* a call of deepMerge or plainDeepClone made by a caller of the
             \* library itself: the function, its arguments, how it ended

vars == <<window, storage, pc, call, initial, live, listening, pending,
          trace, writes, nmut, nforeign, direct>>

NoCall == [keyOrOptions |-> Undefined, initialObject |-> Undefined]
\* no direct call: fn is the function called ("" before the call), target and
\* source its arguments, ok whether it returned normally, result what it
\* returned (plainDeepClone) or what it left of target (deepMerge)
NoDirect ==
  [fn |-> "", target |-> Undefined, source |-> Undefined, ok |-> TRUE,
   result |-> Undefined]
\* gets, getKey, got, readAt: the calls of db.get, the key and the result of
\* the last one, and how often its slot had been written by then;
\* sets, setKey, setValue, wroteAt: the same for db.set;
\* wraps, wrapArg: the calls of proxyFunction and the last argument;
\* observes, observed: the calls of subscribeFunction and the last argument;
\* returned: what cache() returned;
\* raised: the exceptions that left the change listener
NoTrace ==
  [gets |-> 0, getKey |-> "", got |-> Undefined, readAt |-> 0,
   sets |-> 0, setKey |-> "", setValue |-> Undefined, wroteAt |-> 0,
   wraps |-> 0, wrapArg |-> Undefined, observes |-> 0, observed |-> Undefined,
   returned |-> Undefined, raised |-> 0]

Init ==
  /\ window \in BOOLEAN
  /\ storage = [k \in StoreKeys |-> Absent]
  /\ pc = [o \in Orchs |-> "new"]
  /\ call = [o \in Orchs |-> NoCall]
  /\ initial = [o \in Orchs |-> Undefined]
  /\ live = [o \in Orchs |-> Undefined]
  /\ listening = [o \in Orchs |-> FALSE]
  /\ pending = [o \in Orchs |-> FALSE]
  /\ trace = [o \in Orchs |-> NoTrace]
  /\ writes = [k \in StoreKeys |-> 0]
  /\ nmut = [o \in Orchs |-> 0]
  /\ nforeign = 0
  /\ direct = NoDirect

(***************************************************************************)
(* Cache Orchestrator: cache() and the change listener it registers.       *)
(***************************************************************************)
\* proxyFunction(initialObject): the reactive substrate hands back a tracked
\* object that exposes the members of the object it wraps
proxy(initialObject) == initialObject

\* db.get(fullKey) || {}
SourceOf(v) == IF Truthy(v) THEN v ELSE Obj(<<>>)

\* the options with which orchestration o runs
Opt(o) == Destructure(call[o].keyOrOptions, window)

\* skipCache: cache() returns proxyFunction(initialObject) at once
Skipped(o, c) ==
  /\ pc' = [pc EXCEPT ![o] = "live"]
  /\ initial' = [initial EXCEPT ![o] = c.initialObject]
  /\ live' = [live EXCEPT ![o] = proxy(c.initialObject)]
  /\ listening' = listening
  /\ trace' = [trace EXCEPT ![o].wraps = 1,
                            ![o].wrapArg = c.initialObject,
                            ![o].returned = proxy(c.initialObject)]

\* db.get or deepMerge threw: cache() ends with the exception, leaving the
\* caller's object as it is by then (obj)
Threw(o, fullKey, got, obj) ==
  /\ pc' = [pc EXCEPT ![o] = "failed"]
  /\ initial' = [initial EXCEPT ![o] = obj]
  /\ UNCHANGED <<live, listening>>
  /\ trace' = [trace EXCEPT ![o].gets = 1, ![o].getKey = fullKey,
                            ![o].got = got.val, ![o].readAt = writes[fullKey]]

\* a listener that is also run once when it is registered
Returned_WriteAtOnce(o, fullKey, got, obj, state) ==
  /\ pc' = [pc EXCEPT ![o] = "live"]
  /\ initial' = [initial EXCEPT ![o] = obj]
  /\ live' = [live EXCEPT ![o] = state]
  /\ listening' = [listening EXCEPT ![o] = TRUE]
  /\ trace' = [trace EXCEPT ![o].gets = 1, ![o].getKey = fullKey,
                            ![o].got = got.val, ![o].readAt = writes[fullKey],
                            ![o].wraps = 1, ![o].wrapArg = obj,
                            ![o].observes = 1, ![o].observed = state,
                            ![o].returned = state,
                            ![o].sets = 1, ![o].setKey = fullKey,
                            ![o].setValue = plainDeepClone(state)]

\* the merged object is wrapped, the listener registered, the state returned
Returned(o, fullKey, got, obj, state) ==
  /\ pc' = [pc EXCEPT ![o] = "live"]
  /\ initial' = [initial EXCEPT ![o] = obj]
  /\ live' = [live EXCEPT ![o] = state]
  /\ listening' = [listening EXCEPT ![o] = TRUE]
  /\ trace' = [trace EXCEPT ![o].gets = 1, ![o].getKey = fullKey,
                            ![o].got = got.val, ![o].readAt = writes[fullKey],
                            ![o].wraps = 1, ![o].wrapArg = obj,
                            ![o].observes = 1, ![o].observed = state,
                            ![o].returned = state]

\* a cache() that wraps a plain copy of the merged object
Merged_WrapClone(o, fullKey, got, merged) ==
  IF ~merged.ok THEN Threw(o, fullKey, got, merged.obj)
  ELSE Returned(o, fullKey, got, merged.obj, proxy(plainDeepClone(merged.obj)))

\* a cache() whose failed merge leaves the caller's object as it was given
Merged_RolledBack(o, fullKey, got, merged) ==
  IF ~merged.ok THEN Threw(o, fullKey, got, call'[o].initialObject)
  ELSE Returned(o, fullKey, got, merged.obj, proxy(merged.obj))

\* cache() after deepMerge(initialObject, source) ended as merged
Merged(o, fullKey, got, merged) ==
  IF ~merged.ok THEN Threw(o, fullKey, got, merged.obj)
  ELSE Returned(o, fullKey, got, merged.obj, proxy(merged.obj))

\* a cache() that takes a failed db.get for an empty snapshot
Restore_EmptyOnFailure(o, c, fullKey, got) ==
  IF ~got.ok THEN Merged(o, fullKey, got, deepMerge(c.initialObject, Obj(<<>>)))
  ELSE Merged(o, fullKey, got, deepMerge(c.initialObject, SourceOf(got.val)))

\* cache() after db.get(fullKey) ended as got
Restore(o, c, fullKey, got) ==
  IF ~got.ok THEN Threw(o, fullKey, got, c.initialObject)
  ELSE Merged(o, fullKey, got, deepMerge(c.initialObject, SourceOf(got.val)))

\* a cache() that does not look at skipCache
CacheWith_NoSkip(o, c, opt) ==
  Restore(o, c, FullKey(opt), DbGet(opt.db, storage, FullKey(opt)))

\* cache() with its options destructured
CacheWith(o, c, opt) ==
  IF Truthy(opt.skipCache) THEN Skipped(o, c)
  ELSE Restore(o, c, FullKey(opt), DbGet(opt.db, storage, FullKey(opt)))

\* cache(keyOrOptions, initialObject), called for orchestration o
Cache(o, c) ==
  /\ pc[o] = "new"
  /\ call' = [call EXCEPT ![o] = c]
  /\ CacheWith(o, c, Destructure(c.keyOrOptions, window))
  /\ UNCHANGED <<window, storage, pending, writes, nmut, nforeign, direct>>

\* the nested assignment state[k][k2] = value, whose inner assignment ended
\* as r
AssignNested(state, k, r) ==
  [ok |-> r.ok, obj |-> WriteBack(state, k, r.obj)]

\* the assignment state.path = value: [ok, obj]
Assign(state, path, value) ==
  IF Len(path) = 1 THEN Set(state, path[1], value)
  ELSE AssignNested(state, path[1], Set(Get(state, path[1]), path[2], value))

\* the assignment ended as r: it changed the Live State of o, and the
\* substrate marks a change notification as due if a listener is registered
Mutated(o, r) ==
  /\ r.ok
  /\ r.obj # live[o]
  /\ live' = [live EXCEPT ![o] = r.obj]
  /\ pending' = [pending EXCEPT ![o] = listening[o] \/ @]

\* application code assigns into the Live State of o
Mutate(o, a) ==
  /\ pc[o] = "live"
  /\ nmut["A"] + nmut["B"] < MaxMut
  /\ Mutated(o, Assign(live[o], a.path, a.value))
  /\ nmut' = [nmut EXCEPT ![o] = @ + 1]
  /\ UNCHANGED <<window, storage, pc, call, initial, listening, trace, writes,
                 nforeign, direct>>

\* a listener that writes on the first notification only
Listener_Once(o, db, fullKey, cloned) ==
  IF trace[o].sets > 0 THEN UNCHANGED <<storage, writes, trace>>
  ELSE /\ storage' = DbSet(db, storage, fullKey, cloned)
       /\ writes' = [writes EXCEPT
                       ![fullKey] = IF db = LocalStorageDB THEN @ + 1 ELSE @]
       /\ trace' = [trace EXCEPT ![o].sets = @ + 1, ![o].setKey = fullKey,
                                 ![o].setValue = cloned,
                                 ![o].wroteAt = writes'[fullKey],
                                 ![o].raised =
                                   IF DbSetThrows(db) THEN @ + 1 ELSE @]

\* a listener that writes under DEFAULT_PREFIX whatever prefix was given
Listener_DefaultPrefix(o, db, fullKey, cloned) ==
  /\ storage' = DbSet(db, storage, DEFAULT_PREFIX \o Opt(o).key.s, cloned)
  /\ writes' = [writes EXCEPT ![DEFAULT_PREFIX \o Opt(o).key.s] = @ + 1]
  /\ trace' = [trace EXCEPT ![o].sets = @ + 1,
                            ![o].setKey = DEFAULT_PREFIX \o Opt(o).key.s,
                            ![o].setValue = cloned,
                            ![o].wroteAt = writes'[DEFAULT_PREFIX \o Opt(o).key.s]]

\* a listener that stops writing once db.set has thrown
Listener_GivesUp(o, db, fullKey, cloned) ==
  IF trace[o].raised > 0 THEN UNCHANGED <<storage, writes, trace>>
  ELSE /\ storage' = DbSet(db, storage, fullKey, cloned)
       /\ writes' = [writes EXCEPT
                       ![fullKey] = IF db = LocalStorageDB THEN @ + 1 ELSE @]
       /\ trace' = [trace EXCEPT ![o].sets = @ + 1, ![o].setKey = fullKey,
                                 ![o].setValue = cloned,
                                 ![o].wroteAt = writes'[fullKey],
                                 ![o].raised =
                                   IF DbSetThrows(db) THEN @ + 1 ELSE @]

\* a listener that catches what db.set throws
Listener_Caught(o, db, fullKey, cloned) ==
  /\ storage' = DbSet(db, storage, fullKey, cloned)
  /\ writes' = [writes EXCEPT
                  ![fullKey] = IF db = LocalStorageDB THEN @ + 1 ELSE @]
  /\ trace' = [trace EXCEPT ![o].sets = @ + 1, ![o].setKey = fullKey,
                            ![o].setValue = cloned,
                            ![o].wroteAt = writes'[fullKey]]

\* the listener of o: db.set(fullKey, cloned); what db.set throws leaves
\* the listener
Listener(o, db, fullKey, cloned) ==
  /\ storage' = DbSet(db, storage, fullKey, cloned)
  /\ writes' = [writes EXCEPT
                  ![fullKey] = IF db = LocalStorageDB THEN @ + 1 ELSE @]
  /\ trace' = [trace EXCEPT ![o].sets = @ + 1, ![o].setKey = fullKey,
                            ![o].setValue = cloned,
                            ![o].wroteAt = writes'[fullKey],
                            ![o].raised = IF DbSetThrows(db) THEN @ + 1 ELSE @]

\* a listener that snapshots the caller's initial object, not the state
Notify_InitialObject(o) ==
  /\ pending[o]
  /\ Listener(o, Opt(o).db, FullKey(Opt(o)), plainDeepClone(initial[o]))
  /\ pending' = [pending EXCEPT ![o] = FALSE]
  /\ UNCHANGED <<window, pc, call, initial, live, listening, nmut, nforeign,
                 direct>>

\* a clone that filters its argument in place
AfterClone_Filtered(target) == plainDeepClone(target)

\* the argument of plainDeepClone as the call leaves it: the function
\* assigns to members of its own fresh result only, and reads target through
\* Object.keys, target[key] and Object.getOwnPropertyDescriptor; the getters
\* it runs read a member and write nothing
AfterClone(target) == target

\* the substrate delivers the change notification of o: the listener runs
Notify(o) ==
  /\ pending[o]
  /\ Listener(o, Opt(o).db, FullKey(Opt(o)), plainDeepClone(live[o]))
  /\ live' = [live EXCEPT ![o] = AfterClone(@)]
  /\ pending' = [pending EXCEPT ![o] = FALSE]
  /\ UNCHANGED <<window, pc, call, initial, listening, nmut, nforeign, direct>>

\* another writer (an earlier session, another program) writes a slot
ForeignWrite(k, text) ==
  /\ nforeign < MaxForeign
  /\ storage' = [storage EXCEPT ![k] = Item(text)]
  /\ writes' = [writes EXCEPT ![k] = @ + 1]
  /\ nforeign' = nforeign + 1
  /\ UNCHANGED <<window, pc, call, initial, live, listening, pending, trace,
                 nmut, direct>>

\* one orchestration, every call and assignment, and other writers
Next ==
  \/ \E c \in Calls : Cache("A", c)
  \/ \E a \in Assignments : Mutate("A", a)
  \/ Notify("A")
  \/ \E k \in ForeignKeys, text \in ForeignTexts : ForeignWrite(k, text)

Spec == Init /\ [][Next]_vars

\* cache() called for one of two orchestrations, A before B
CachePair(o, c) ==
  /\ o = "B" => pc["A"] # "new"
  /\ Cache(o, c)

\* two orchestrations side by side, and other writers
NextPair ==
  \/ \E o \in Orchs, c \in PairCalls : CachePair(o, c)
  \/ \E o \in Orchs, a \in PairAssignments : Mutate(o, a)
  \/ \E o \in Orchs : Notify(o)
  \/ \E k \in ForeignKeys, text \in PairTexts : ForeignWrite(k, text)

SpecPair == Init /\ [][NextPair]_vars

\* the calls made when two orchestrations use different keys of one store,
\* and the slots other writers fill there
KeyCalls == {StringCall, BareKeyCall}
KeySlots == {FullKey(Destructure(c.keyOrOptions, TRUE)) : c \in KeyCalls}

\* cache() called for one of two orchestrations, A before B, B under
\* another key than A
CacheKeys(o, c) ==
  /\ o = "B" => /\ pc["A"] # "new"
                /\ FullKey(Destructure(c.keyOrOptions, window)) # FullKey(Opt("A"))
  /\ Cache(o, c)

\* two orchestrations under different keys, and other writers
NextKeys ==
  \/ \E o \in Orchs, c \in KeyCalls : CacheKeys(o, c)
  \/ \E o \in Orchs, a \in PairAssignments : Mutate(o, a)
  \/ \E o \in Orchs : Notify(o)
  \/ \E k \in KeySlots, text \in PairTexts : ForeignWrite(k, text)

SpecKeys == Init /\ [][NextKeys]_vars

(***************************************************************************)
(* deepMerge and plainDeepClone called by themselves, as the unit tests    *)
(* call them: one call per behaviour, its arguments drawn from the object  *)
(* graphs below.                                                           *)
(***************************************************************************)
\* the container o as the object whose identity is id (what toBe compares)
Known(id, o) == [o EXCEPT !.id = id]

\* the objects passed as target
Targets ==
  { \* { a: 1, b: { x: 1, y: 2 }, list: [1, 2] }
    Known("t1", Obj(<<Prop("a", Num(1)),
      Prop("b", Known("t1.b", Obj(<<Prop("x", Num(1)), Prop("y", Num(2))>>))),
      Prop("list", Known("t1.list", Arr(<<Num(1), Num(2)>>)))>>)),
    \* { a: 0, b: null, c: '', d: false, e: undefined }
    Known("t2", Obj(<<Prop("a", Num(0)), Prop("b", Null), Prop("c", Str("")),
      Prop("d", Bool(FALSE)), Prop("e", Undefined)>>)),
    \* { a: 's', b: 5 }
    Known("t3", Obj(<<Prop("a", Str("s")), Prop("b", Num(5))>>)),
    \* { grid: [[1], [2]], rows: [{ x: 1 }] }
    Known("t4", Obj(<<
      Prop("grid", Known("t4.grid", Arr(<<Known("t4.grid.0", Arr(<<Num(1)>>)),
                                          Known("t4.grid.1", Arr(<<Num(2)>>))>>))),
      Prop("rows", Known("t4.rows",
        Arr(<<Known("t4.rows.0", Obj(<<Prop("x", Num(1))>>))>>)))>>)),
    \* the class instance
    Known("t5", Widget),
    \* {}
    Known("t6", Obj(<<>>)),
    \* { b: { x: { p: 1 }, y: 2 } }
    Known("t7", Obj(<<Prop("b", Known("t7.b", Obj(<<
      Prop("x", Known("t7.b.x", Obj(<<Prop("p", Num(1))>>))),
      Prop("y", Num(2))>>)))>>)),
    \* { get alias() { return this.data } }
    Known("t8", Obj(<<Prop("alias", Accessor("data", ""))>>)),
    \* { b: shared }, where shared = { m: 1 } is also held by a source
    Known("t9", Obj(<<Prop("b", Known("shared", Obj(<<Prop("m", Num(1))>>)))>>)),
    \* { handlers: [2, function f() {}], rows: [{ x: 1 }] }
    Known("t10", Obj(<<
      Prop("handlers", Known("t10.handlers", Arr(<<Num(2), Fn("f")>>))),
      Prop("rows", Known("t10.rows",
        Arr(<<Known("t10.rows.0", Obj(<<Prop("x", Num(1))>>))>>)))>>)) }

\* the objects passed as source
Sources ==
  { \* {}
    Known("s1", Obj(<<>>)),
    \* { a: 2, b: { x: 3, z: 4 }, list: [9] }
    Known("s2", Obj(<<Prop("a", Num(2)),
      Prop("b", Known("s2.b", Obj(<<Prop("x", Num(3)), Prop("z", Num(4))>>))),
      Prop("list", Known("s2.list", Arr(<<Num(9)>>)))>>)),
    \* { a: null, b: null, c: null }
    Known("s3", Obj(<<Prop("a", Null), Prop("b", Null), Prop("c", Null)>>)),
    \* { a: { k: 1 }, d: { m: 1 }, e: 3 }
    Known("s4", Obj(<<Prop("a", Known("s4.a", Obj(<<Prop("k", Num(1))>>))),
      Prop("d", Known("s4.d", Obj(<<Prop("m", Num(1))>>))),
      Prop("e", Num(3))>>)),
    \* { b: [7], a: [8], n: [[1]] }
    Known("s5", Obj(<<Prop("b", Known("s5.b", Arr(<<Num(7)>>))),
      Prop("a", Known("s5.a", Arr(<<Num(8)>>))),
      Prop("n", Known("s5.n", Arr(<<Known("s5.n.0", Arr(<<Num(1)>>))>>)))>>)),
    \* { p: 1, q: { r: 1 }, u: undefined }
    Known("s6", Obj(<<Prop("p", Num(1)),
      Prop("q", Known("s6.q", Obj(<<Prop("r", Num(1))>>))),
      Prop("u", Undefined)>>)),
    \* { b: { x: { q: 2 }, y: [3] } }
    Known("s7", Obj(<<Prop("b", Known("s7.b", Obj(<<
      Prop("x", Known("s7.b.x", Obj(<<Prop("q", Num(2))>>))),
      Prop("y", Known("s7.b.y", Arr(<<Num(3)>>)))>>)))>>)),
    \* { b: {} }
    Known("s8", Obj(<<Prop("b", Known("s8.b", Obj(<<>>)))>>)),
    \* { data: { a: 1 }, alias: { b: 2 } }
    Known("s9", Obj(<<
      Prop("data", Known("s9.data", Obj(<<Prop("a", Num(1))>>))),
      Prop("alias", Known("s9.alias", Obj(<<Prop("b", Num(2))>>)))>>)),
    \* { b: { n: 1 }, c: shared }
    Known("s10", Obj(<<
      Prop("b", Known("s10.b", Obj(<<Prop("n", Num(1))>>))),
      Prop("c", Known("shared", Obj(<<Prop("m", Num(1))>>)))>>)) }

\* before the call: the arguments are chosen, nothing of the engine runs
InitDirect ==
  /\ window = TRUE
  /\ storage = [k \in StoreKeys |-> Absent]
  /\ pc = [o \in Orchs |-> "new"]
  /\ call = [o \in Orchs |-> NoCall]
  /\ initial = [o \in Orchs |-> Undefined]
  /\ live = [o \in Orchs |-> Undefined]
  /\ listening = [o \in Orchs |-> FALSE]
  /\ pending = [o \in Orchs |-> FALSE]
  /\ trace = [o \in Orchs |-> NoTrace]
  /\ writes = [k \in StoreKeys |-> 0]
  /\ nmut = [o \in Orchs |-> 0]
  /\ nforeign = 0
  /\ \E t \in Targets, s \in Sources :
       direct = [NoDirect EXCEPT !.target = t, !.source = s]

\* the call fn ended with the outcome r = [ok, obj]
Ended(fn, r) ==
  /\ direct.fn = ""
  /\ direct' = [direct EXCEPT !.fn = fn, !.ok = r.ok, !.result = r.obj]
  /\ UNCHANGED <<window, storage, pc, call, initial, live, listening, pending,
                 trace, writes, nmut, nforeign>>

\* deepMerge(target, source)
CallDeepMerge == Ended("deepMerge", deepMerge(direct.target, direct.source))

\* plainDeepClone(target)
CallPlainDeepClone ==
  Ended("plainDeepClone", [ok |-> TRUE, obj |-> plainDeepClone(direct.target)])

\* deepMerge(target, plainDeepClone(target)): a state restored from its own
\* snapshot
CallMergeOfClone ==
  Ended("mergeOfClone", deepMerge(direct.target, plainDeepClone(direct.target)))

\* the source of a second merge into the same target:
\* { a: { z: 1 }, b: { z: 1 }, c: { z: 1 }, d: { z: 1 }, n: { z: 1 } }
Again ==
  Known("again", Obj(<<
    Prop("a", Known("again.a", Obj(<<Prop("z", Num(1))>>))),
    Prop("b", Known("again.b", Obj(<<Prop("z", Num(1))>>))),
    Prop("c", Known("again.c", Obj(<<Prop("z", Num(1))>>))),
    Prop("d", Known("again.d", Obj(<<Prop("z", Num(1))>>))),
    Prop("n", Known("again.n", Obj(<<Prop("z", Num(1))>>)))>>))

\* deepMerge(target, Again) after a deepMerge(target, source) that ended
\* as first
MergeAgain(first) == IF first.ok THEN deepMerge(first.obj, Again) ELSE first

\* deepMerge(target, source); deepMerge(target, Again)
CallMergeTwice ==
  Ended("mergeTwice", MergeAgain(deepMerge(direct.target, direct.source)))

\* deepMerge over objects held by reference: a heap maps the identity of an
\* object to its members, a member is a primitive or a reference, and an
\* assignment into an object shows wherever the object is referred to
Ref(id) == [t |-> "ref", id |-> id]
HeapGet(h, o, k) ==
  IF Position(h[o], k) = 0 THEN Undefined ELSE h[o][Position(h[o], k)].val
HeapSet(h, o, k, v) ==
  [h EXCEPT ![o] = IF Position(@, k) = 0 THEN Append(@, Prop(k, v))
                   ELSE [@ EXCEPT ![Position(@, k)].val = v]]

RECURSIVE HeapMerge(_, _, _, _)
RECURSIVE HeapMergeKeys(_, _, _, _, _)

\* the loop goes on after the recursive call ended as r
HeapAfterRecurse(r, t, s, keys, stack) ==
  IF r.ended = "returned" THEN HeapMergeKeys(r.heap, t, s, Tail(keys), stack)
  ELSE r

\* a loop body that recurses with the object it is looping over
HeapMergeKey_SameSource(h, t, s, keys, stack, key, value) ==
  IF value.t # "ref" \/ ~Truthy(HeapGet(h, t, key))
    THEN HeapMergeKeys(HeapSet(h, t, key, value), t, s, Tail(keys), stack)
  ELSE HeapAfterRecurse(HeapMerge(h, Ref(t), Ref(s), stack),
                        t, s, keys, stack)

\* the loop body for key, whose source member is value
HeapMergeKey(h, t, s, keys, stack, key, value) ==
  IF value.t # "ref" \/ ~Truthy(HeapGet(h, t, key))
    THEN HeapMergeKeys(HeapSet(h, t, key, value), t, s, Tail(keys), stack)
  ELSE HeapAfterRecurse(HeapMerge(h, HeapGet(h, t, key), value, stack),
                        t, s, keys, stack)

\* the for-in loop over the keys of the object s that are still to be
\* visited
HeapMergeKeys(h, t, s, keys, stack) ==
  IF keys = <<>> THEN [heap |-> h, ended |-> "returned"]
  ELSE HeapMergeKey(h, t, s, keys, stack, Head(keys), HeapGet(h, s, Head(keys)))

\* deepMerge(target, source) on the heap h, called while the calls of stack
\* (each a heap, a target and a source) are running: [heap, ended].  A call that is running already with the
\* same arguments and the same heap repeats itself and never returns; a
\* member assigned to a primitive target throws
HeapMerge(h, target, source, stack) ==
  IF <<h, target, source>> \in stack THEN [heap |-> h, ended |-> "never"]
  ELSE IF target.t # "ref"
    THEN [heap |-> h,
          ended |-> IF h[source.id] = <<>> THEN "returned" ELSE "threw"]
  ELSE HeapMergeKeys(h, target.id, source.id, KeysOf(h[source.id]),
                     stack \cup {<<h, target, source>>})

\* the heaps deepMerge is called with, target "T" and source "S":
\* separate graphs; a source that holds one object twice; an object Y held
\* by both, with source -> O -> W -> Y and target -> Y; a truthy primitive
\* where the source holds an object
HeapInputs ==
  { [T |-> <<Prop("p", Ref("Y"))>>, Y |-> <<>>,
     S |-> <<Prop("p", Ref("O")), Prop("z", Ref("W"))>>,
     O |-> <<Prop("q", Ref("W"))>>, W |-> <<Prop("r", Ref("V"))>>,
     V |-> <<Prop("n", Num(1))>>],
    [T |-> <<>>, S |-> <<Prop("a", Ref("W")), Prop("b", Ref("W"))>>,
     W |-> <<Prop("n", Num(1))>>],
    [T |-> <<Prop("p", Ref("Y")), Prop("z", Ref("Y")), Prop("z2", Ref("Y"))>>,
     Y |-> <<>>,
     S |-> <<Prop("p", Ref("O")), Prop("z", Ref("W")), Prop("z2", Ref("W"))>>,
     O |-> <<Prop("q", Ref("W"))>>, W |-> <<Prop("r", Ref("Y"))>>],
    [T |-> <<Prop("b", Ref("Y"))>>, Y |-> <<Prop("m", Num(1))>>,
     S |-> <<Prop("b", Ref("O")), Prop("c", Ref("Y"))>>,
     O |-> <<Prop("n", Num(1))>>],
    [T |-> <<Prop("a", Num(5))>>, S |-> <<Prop("a", Ref("O"))>>,
     O |-> <<Prop("n", Num(1))>>] }

\* what lies below the levels to which a cyclic graph is unfolded
Beyond == [t |-> "beyond"]

RECURSIVE Cycle(_)
RECURSIVE Chain(_, _)

\* source = { v: 1 }; source.self = source: the object whose member self is
\* the object itself, unfolded to `levels` levels
Cycle(levels) ==
  Known("cyc", Obj(<<Prop("v", Num(1)),
    Prop("self", IF levels = 1 THEN Beyond ELSE Cycle(levels - 1))>>))

\* { self: { self: ... end } }: `links` objects nested under the key self
\* around the value end
Chain(links, end) ==
  IF links = 0 THEN end
  ELSE Known("chain", Obj(<<Prop("self", Chain(links - 1, end))>>))

\* the targets a cyclic source is merged into: {}, { self: {} },
\* { self: { self: {} } }, { self: 5 }, and target = {}; target.self =
\* target, which holds more levels than any unfolding of the source
CycleTargets ==
  { Chain(n, Known("chain", Obj(<<>>))) : n \in 0..2 }
  \cup { Chain(1, Num(5)), Chain(MaxDepth + 1, Known("chain", Obj(<<>>))) }

\* the call fn of the arguments t and s, chosen by the caller at the call,
\* ended with the outcome r = [ok, obj]
Called(fn, t, s, r) ==
  /\ direct.fn = ""
  /\ direct' = [fn |-> fn, target |-> t, source |-> s,
                ok |-> r.ok, result |-> r.obj]
  /\ UNCHANGED <<window, storage, pc, call, initial, live, listening, pending,
                 trace, writes, nmut, nforeign>>

\* deepMerge(target, source) with source.self = source
CallMergeOfCycle ==
  \E t \in CycleTargets, levels \in 1..MaxDepth :
    Called("mergeOfCycle", t, Cycle(levels), deepMerge(t, Cycle(levels)))

RECURSIVE SpreadKeys(_, _, _)

\* the object acc after the spread ...from of the own enumerable members
\* of `from` named by keys
SpreadKeys(acc, from, keys) ==
  IF keys = <<>> THEN acc
  ELSE SpreadKeys(PutData(acc, Head(keys), Get(from, Head(keys))), from,
                  Tail(keys))

\* the object literal { ...a, ...b }
Spread(a, b) ==
  SpreadKeys(SpreadKeys(Obj(<<>>), a, ObjectKeys(a)), b, ObjectKeys(b))

\* a factory that lets its own options win over the options of the call
cacheFactory_FactoryWins(factoryOptions, keyOrOptions) ==
  Spread(OptionsOf(keyOrOptions), factoryOptions)

\* cacheFactory(factoryOptions)(keyOrOptions, initialObject): the options
\* with which it calls cache
cacheFactory(factoryOptions, keyOrOptions) ==
  Spread(factoryOptions, OptionsOf(keyOrOptions))

\* the options factories are made with, and the first argument of the calls
\* of the functions they return
FactoryInputs ==
  [factoryOptions :
     { Obj(<<Prop("proxyFunction", Fn("factoryProxy"))>>),
       Obj(<<Prop("proxyFunction", Fn("factoryProxy")),
             Prop("subscribeFunction", Fn("factorySubscribe"))>>),
       Obj(<<>>) },
   keyOrOptions :
     { Str("k"),
       Obj(<<Prop("key", Str("k")), Prop("db", LocalStorageDB)>>),
       Obj(<<Prop("key", Str("k")), Prop("db", LocalStorageDB),
             Prop("proxyFunction", Fn("instanceProxy"))>>),
       Obj(<<Prop("key", Str("k")), Prop("prefix", Str("p/")),
             Prop("subscribeFunction", Fn("instanceSubscribe"))>>),
       Obj(<<Prop("key", Str("k")), Prop("proxyFunction", Undefined)>>) }]

\* a function made by cacheFactory is called
CallCacheFactory ==
  \E i \in FactoryInputs :
    Called("cacheFactory", i.factoryOptions, i.keyOrOptions,
           [ok |-> TRUE, obj |-> cacheFactory(i.factoryOptions, i.keyOrOptions)])

\* an instance of a class with a field, with own data members, methods and
\* accessors, and with data, a method and accessors on the prototype:
\*   own: count: 0, nothing: undefined, cfg: {}, secret (not enumerable),
\*        get view() { return this.count }, set sink(v) {..},
\*        get handler() { return this.inc }, inc() {..}, arrow: () => ..,
\*        bare (an accessor with neither function)
\*   inherited: base: 1, reset() {..}, get total() / set total(v),
\*        get maker() { return this.inc }
Gadget ==
  Container("object",
            <<Prop("count", Num(0)), Prop("nothing", Undefined),
              Prop("cfg", Obj(<<>>)), Hidden("secret", Num(1)),
              Prop("view", Accessor("count", "")),
              Prop("sink", Accessor("", "count")),
              Prop("handler", Accessor("inc", "")),
              Prop("inc", Fn("inc")), Prop("arrow", Fn("arrow")),
              Prop("bare", Accessor("", ""))>>,
            <<Prop("base", Num(1)), Hidden("reset", Fn("reset")),
              Hidden("total", Accessor("count", "count")),
              Hidden("maker", Accessor("inc", ""))>>,
            <<>>, "")

\* the members asked about: every key of Gadget, a key it has not, and the
\* elements of [1, () => ..] with an index past its end
PlainInputs ==
  { [target |-> Gadget, key |-> k] :
      k \in {"count", "nothing", "cfg", "secret", "view", "sink", "handler",
             "inc", "arrow", "bare", "base", "reset", "total", "maker",
             "nonexistent"} }
  \cup { [target |-> Arr(<<Num(1), Fn("f")>>), key |-> k] : k \in {"0", "1", "2"} }

\* isPlainField(target, key)
CallIsPlainField ==
  \E i \in PlainInputs :
    Called("isPlainField", i.target, Str(i.key),
           [ok |-> TRUE, obj |-> Bool(isPlainField(i.target, i.key))])

\* the values handed to LocalStorageDB.set
StoreValues ==
  { Profile,
    Arr(<<Num(1), Str("test"), Obj(<<Prop("nested", Bool(TRUE))>>), Null>>),
    Arr(<<Arr(<<Num(1)>>), Arr(<<Num(2)>>)>>),
    Obj(<<>>), Arr(<<>>), Num(5), Num(0), Bool(TRUE), Bool(FALSE), Null,
    Str("hello"), Str("5"), Str("true"), Str("") }

\* db.set('k', v) on a LocalStorageDB
CallSet ==
  \E v \in StoreValues :
    /\ direct.fn = ""
    /\ direct' = [direct EXCEPT !.fn = "set", !.target = Str("k"),
                                !.source = v]
    /\ storage' = LocalStorageDB_set(storage, "k", v)
    /\ writes' = [writes EXCEPT !["k"] = @ + 1]
    /\ UNCHANGED <<window, pc, call, initial, live, listening, pending,
                   trace, nmut, nforeign>>

\* the db.get('k') that ended as got: right after the set ("setThenGet"),
\* or with no set before it ("get")
Got(got) ==
  /\ direct.fn \in {"", "set"}
  /\ direct' = [direct EXCEPT
                  !.fn = IF @ = "set" THEN "setThenGet" ELSE "get",
                  !.ok = got.ok, !.result = got.val]
  /\ UNCHANGED <<window, storage, pc, call, initial, live, listening, pending,
                 trace, writes, nmut, nforeign>>

\* db.get('k') on a LocalStorageDB
CallGet == Got(LocalStorageDB_get(storage, "k"))

\* deepMerge(target, source) on a heap
CallMergeOnHeap ==
  \E h \in HeapInputs :
    Called("mergeOnHeap", h, Ref("S"),
           [ok |-> HeapMerge(h, Ref("T"), Ref("S"), {}).ended = "returned",
            obj |-> HeapMerge(h, Ref("T"), Ref("S"), {})])

NextDirect ==
  \/ CallDeepMerge
  \/ CallPlainDeepClone
  \/ CallMergeOfClone
  \/ CallMergeOfCycle
  \/ CallCacheFactory
  \/ CallSet
  \/ CallGet
  \/ CallIsPlainField
  \/ CallMergeTwice
  \/ CallMergeOnHeap

SpecDirect == InitDirect /\ [][NextDirect]_vars

(***************************************************************************)
(* Properties.  Helpers first.                                             *)
(***************************************************************************)
Range(seq) == {seq[i] : i \in 1..Len(seq)}

\* every key under which o has a property, own or inherited
AllKeys(o) ==
  IF ~IsContainer(o) THEN {}
  ELSE Range(ObjectKeys(o)) \cup Range(KeysOf(o.own)) \cup Range(KeysOf(o.proto))

\* orchestration o persists through the durable adapter
Durable(o) == Opt(o).db = LocalStorageDB

\* the item the durable adapter leaves in a slot for the snapshot v
Encoded(v) == Item(StoredText(JSONstringify(v)))

\* {"count":5,"name":"n","cfg":{"theme":2,"size":1}}
ProfileAfterBoth ==
  <<Punct("{"), Quoted("count"), Punct(":"), Lit("5"), Punct(","),
    Quoted("name"), Punct(":"), Quoted("n"), Punct(","),
    Quoted("cfg"), Punct(":"), Punct("{"), Quoted("theme"), Punct(":"),
    Lit("2"), Punct(","), Quoted("size"), Punct(":"), Lit("1"),
    Punct("}"), Punct("}")>>

\* C1: once the change notification for a mutation of a Live State (of a
\* top-level or of a nested member) has been delivered, the store has been
\* handed, under prefix + key, the filtered plain snapshot of the whole
\* current Live State, and the slot of the durable adapter holds its
\* encoding for as long as nobody else writes the slot.
C1_SnapshotStored ==
  \A o \in Orchs :
    (pc[o] = "live" /\ listening[o] /\ nmut[o] > 0 /\ ~pending[o]) =>
      /\ trace[o].sets > 0
      /\ trace[o].setKey = FullKey(Opt(o))
      /\ trace[o].setValue = plainDeepClone(live[o])
      /\ (Durable(o) /\ trace[o].wroteAt = writes[FullKey(Opt(o))]) =>
           storage[FullKey(Opt(o))] = Encoded(plainDeepClone(live[o]))

\* a top-level and a nested assignment have both been delivered, and the
\* slot holds the text of the whole state, not of the last change
C1_Witness ==
  /\ pc["A"] = "live" /\ listening["A"] /\ ~pending["A"]
  /\ nmut["A"] = 2
  /\ Get(live["A"], "count") = Num(5)
  /\ Get(Get(live["A"], "cfg"), "theme") = Num(2)
  /\ storage[DEFAULT_PREFIX \o "k"] = Item(ProfileAfterBoth)

\* C2: when db.get returned null for the namespace key, cache() returns a
\* Live State with the members of the initial object as the caller built
\* it, and db.set is not called before the Live State is mutated.
C2_NothingStored ==
  \A o \in Orchs :
    (pc[o] = "live" /\ trace[o].gets = 1 /\ trace[o].got = Null) =>
      /\ trace[o].returned = call[o].initialObject
      /\ nmut[o] = 0 => (trace[o].sets = 0 /\ live[o] = call[o].initialObject)

\* an orchestration over the durable adapter that found its slot empty and
\* has not been mutated yet, while the slot has meanwhile been written by
\* another writer
C2_Witness ==
  /\ pc["A"] = "live" /\ call["A"] = WidgetCall
  /\ trace["A"].gets = 1 /\ trace["A"].got = Null
  /\ nmut["A"] = 0 /\ trace["A"].sets = 0
  /\ nforeign = 1

RECURSIVE Overlaid(_, _, _)

\* the member k of the stored snapshot, v, against the property w that the
\* initial object has under k
OverlaidAt(state, k, v, w) ==
  /\ TypeOf(v) # "object" => Get(state, k) = v
  /\ ~w.found => Get(state, k) = v
  /\ (v.t = "object" /\ w.found /\ ~IsAccessor(w.val) /\ w.val.t = "object") =>
       Overlaid(Get(state, k), v, w.val)

\* state is the object given with the snapshot stored laid over it
Overlaid(state, stored, given) ==
  /\ \A k \in Range(ObjectKeys(stored)) :
       OverlaidAt(state, k, Get(stored, k), Resolve(given, k))
  /\ \A k \in AllKeys(given) \ Range(ObjectKeys(stored)) :
       Resolve(state, k) = Resolve(given, k)

\* C3: when the store holds a snapshot S for the key, the Live State that
\* cache() returns carries S's value under every key of S whose value is a
\* primitive, the initial object's property under every key only the
\* initial object has, S's value under every key only S has, and the same
\* inside the nested objects that both have.
C3_StoredOverInitial ==
  \A o \in Orchs :
    (pc[o] = "live" /\ trace[o].gets = 1 /\ trace[o].got.t = "object") =>
      Overlaid(trace[o].returned, trace[o].got, call[o].initialObject)

\* {count:4, extra:'x', cfg:{theme:2, lang:'x'}} restored over
\* {count:0, name:'n', cfg:{theme:1, size:1}}
C3_Witness ==
  /\ pc["A"] = "live" /\ call["A"] = StringCall
  /\ trace["A"].got.t = "object"
  /\ Get(trace["A"].returned, "count") = Num(4)
  /\ Get(trace["A"].returned, "name") = Str("n")
  /\ Get(trace["A"].returned, "extra") = Str("x")
  /\ Get(trace["A"].returned, "cfg") =
       Obj(<<Prop("theme", Num(2)), Prop("size", Num(1)),
             Prop("lang", Str("x"))>>)

\* C4: with skipCache set, cache() returns proxyFunction(initialObject);
\* db.get and db.set are never called and no listener is registered,
\* whatever mutations follow.
C4_SkipTouchesNothing ==
  \A o \in Orchs :
    (pc[o] # "new" /\ Truthy(Get(call[o].keyOrOptions, "skipCache"))) =>
      /\ pc[o] = "live"
      /\ trace[o].wraps = 1
      /\ trace[o].wrapArg = call[o].initialObject
      /\ trace[o].returned = proxy(call[o].initialObject)
      /\ trace[o].gets = 0 /\ trace[o].sets = 0 /\ trace[o].observes = 0
      /\ ~listening[o] /\ ~pending[o]

\* a skipped orchestration whose Live State has been mutated twice
C4_Witness ==
  /\ pc["A"] = "live" /\ call["A"] = SkipCall
  /\ nmut["A"] = 2
  /\ live["A"] # call["A"].initialObject
  /\ trace["A"].gets = 0 /\ trace["A"].sets = 0

RECURSIVE IsJSONData(_)

\* v is data that JSON represents: it reads back from its text as it is
IsJSONData(v) ==
  CASE v.t \in {"null", "number", "string", "boolean"} -> TRUE
    [] v.t = "array" -> \A i \in 1..Len(v.items) : IsJSONData(v.items[i])
    [] v.t = "object" ->
         /\ v.proto = <<>>
         /\ \A i \in 1..Len(v.own) :
              ~IsAccessor(v.own[i].val) /\ IsJSONData(v.own[i].val)
    [] OTHER -> FALSE

RECURSIVE OnlyAssigned(_, _)

\* the member v of a snapshot against the member w that the plain data of
\* the initial object has under the same key: v is what w was, or a
\* non-null primitive or an array of JSON data that was assigned, or an
\* object into which only such values were assigned
OnlyAssignedAt(v, w) ==
  \/ v.t \in {"number", "string", "boolean"}
  \/ IsArray(v) /\ IsJSONData(v)
  \/ v = w /\ IsJSONData(v)
  \/ v.t = "object" /\ w.t = "object" /\ OnlyAssigned(w, v)

\* the snapshot snap differs from the plain data given only by such
\* assignments
OnlyAssigned(given, snap) ==
  /\ Range(ObjectKeys(given)) \subseteq Range(ObjectKeys(snap))
  /\ \A k \in Range(ObjectKeys(snap)) :
       OnlyAssignedAt(Get(snap, k), Get(given, k))

\* orchestration b read the slot as the last write of orchestration a to
\* the durable store had left it
ReadWriteOf(a, b) ==
  /\ a # b /\ pc[a] = "live" /\ pc[b] # "new"
  /\ trace[a].sets > 0 /\ trace[b].gets = 1
  /\ Durable(a) /\ Durable(b)
  /\ FullKey(Opt(a)) = FullKey(Opt(b))
  /\ trace[b].readAt = trace[a].wroteAt

\* b is a restart of a: the same call, with a fresh copy of the same
\* initial object, after the last write of a
Restart(a, b) == ReadWriteOf(a, b) /\ call[a] = call[b]

C6_OneSetPerNotification ==
  [][\A o \in Orchs :
       IF pending[o] /\ ~pending'[o]
         THEN /\ trace'[o].sets = trace[o].sets + 1
              /\ trace'[o].setKey = FullKey(Opt(o))
              /\ trace'[o].setValue = plainDeepClone(live[o])
              /\ live'[o] = live[o]
              /\ nmut[o] > trace[o].sets
         ELSE /\ trace'[o].sets = trace[o].sets
              /\ trace'[o].setValue = trace[o].setValue]_vars

\* two mutations, each delivered by a notification of its own
C6_Witness ==
  /\ pc["A"] = "live" /\ listening["A"] /\ ~pending["A"]
  /\ nmut["A"] = 2 /\ trace["A"].sets = 2
  /\ trace["A"].setValue = plainDeepClone(live["A"])

\* C7: two orchestrations with the same namespace key on the same store
\* read the same slot, and read the same snapshot from it when it was not
\* written in between; each write replaces the content of the slot by the
\* full snapshot of the orchestration that writes, so that the slot holds
\* the snapshot written last.
C7_SharedSlot ==
  \A a, b \in Orchs :
    (/\ a # b /\ pc[a] # "new" /\ pc[b] # "new"
     /\ trace[a].gets = 1 /\ trace[b].gets = 1
     /\ FullKey(Opt(a)) = FullKey(Opt(b))
     /\ Opt(a).db = Opt(b).db) =>
      /\ trace[a].getKey = trace[b].getKey
      /\ trace[a].readAt = trace[b].readAt => trace[a].got = trace[b].got
      /\ (/\ Durable(a) /\ trace[a].sets > 0
          /\ trace[a].wroteAt = writes[FullKey(Opt(a))]) =>
           storage[FullKey(Opt(a))] = Encoded(trace[a].setValue)

\* both restored the same stored snapshot, A wrote, then B wrote: the slot
\* holds the snapshot of B, which is not that of A
C7_Witness ==
  /\ pc["A"] = "live" /\ pc["B"] = "live"
  /\ call["A"] = StringCall /\ call["B"] = StringCall
  /\ trace["A"].got.t = "object" /\ trace["A"].got = trace["B"].got
  /\ trace["A"].sets = 1 /\ trace["B"].sets = 1
  /\ trace["A"].wroteAt < trace["B"].wroteAt
  /\ trace["A"].setValue # trace["B"].setValue
  /\ storage[DEFAULT_PREFIX \o "k"] = Encoded(plainDeepClone(live["B"]))

\* d is a method or an accessor-backed member
IsBehaviour(d) == d.found /\ (IsAccessor(d.val) \/ IsCallable(d.val))

\* the member of given that resolves to d under key k is on state as it
\* was, and its getter returns what the snapshot stored has restored
BehaviourKeptAt(state, stored, k, d) ==
  IsBehaviour(d) =>
    /\ Resolve(state, k) = d
    /\ (/\ IsAccessor(d.val) /\ d.val.get # ""
        /\ Resolve(stored, d.val.get).found
        /\ TypeOf(Get(stored, d.val.get)) # "object") =>
         Get(state, k) = Get(stored, d.val.get)

\* cache() of orchestration b merged into the caller's object and wrapped
\* that object, and the members of given under keys hold their behaviour
RestoredInPlace(b, keys) ==
  /\ trace[b].wrapArg = initial[b]
  /\ trace[b].returned = proxy(initial[b])
  /\ trace[b].observed = trace[b].returned
  /\ \A k \in keys :
       BehaviourKeptAt(trace[b].returned, trace[b].got, k,
                       Resolve(call[b].initialObject, k))

\* C8, as the specification states it: cache() merges into the caller's
\* object and wraps that very object, and after a restore from a snapshot
\* this engine wrote every accessor-backed and callable member of the
\* initial object, own or inherited, is unchanged on the Live State, its
\* getters computing from the restored data.
C8_BehaviourSurvives ==
  \A a, b \in Orchs :
    (ReadWriteOf(a, b) /\ pc[b] = "live") =>
      RestoredInPlace(b, AllKeys(call[b].initialObject))

\* C8, amended: the same for every accessor-backed and callable member
\* whose key is not a key of the snapshot.
C8_BehaviourSurvivesUnlessStored ==
  \A a, b \in Orchs :
    (ReadWriteOf(a, b) /\ pc[b] = "live") =>
      RestoredInPlace(b, AllKeys(call[b].initialObject)
                           \ Range(ObjectKeys(trace[b].got)))

\* the class instance restored from a snapshot with count 5: the own
\* getter reads 5, the inherited accessor too, the methods are there
C8_Witness ==
  /\ ReadWriteOf("A", "B") /\ pc["B"] = "live"
  /\ call["B"] = WidgetCall
  /\ Get(trace["B"].got, "count") = Num(5)
  /\ Get(trace["B"].returned, "view") = Num(5)
  /\ Get(trace["B"].returned, "total") = Num(5)
  /\ Get(trace["B"].returned, "inc") = Fn("inc")
  /\ Get(trace["B"].returned, "reset") = Fn("reset")

RECURSIVE IsPlainData(_)

\* v holds, at no depth, a callable value or an accessor-backed member
IsPlainData(v) ==
  /\ ~IsCallable(v)
  /\ IsContainer(v) =>
       /\ \A i \in 1..Len(v.items) : IsPlainData(v.items[i])
       /\ \A i \in 1..Len(v.own) :
            ~IsAccessor(v.own[i].val) /\ IsPlainData(v.own[i].val)
       /\ \A i \in 1..Len(v.proto) :
            ~IsAccessor(v.proto[i].val) /\ IsPlainData(v.proto[i].val)

\* C9: the result of plainDeepClone, and so every value passed to db.set,
\* holds at no depth a callable value or an accessor-backed member.
C9_SnapshotIsPlainData ==
  \A o \in Orchs : trace[o].sets > 0 => IsPlainData(trace[o].setValue)

\* the namespace key of a call, from its arguments: the prefix given (the
\* empty one too), 'valtio/v1.0/' when none is given, then the key
NamespaceOf(keyOrOptions) ==
  IF keyOrOptions.t = "string" THEN "valtio/v1.0/" \o keyOrOptions.s
  ELSE IF Position(keyOrOptions.own, "prefix") = 0
    THEN "valtio/v1.0/" \o Get(keyOrOptions, "key").s
  ELSE Get(keyOrOptions, "prefix").s \o Get(keyOrOptions, "key").s

RECURSIVE Shape(_)

\* the entries of a property list with the identities of their values erased
ShapeOfEntries(entries) ==
  [i \in 1..Len(entries) |-> [entries[i] EXCEPT !.val = Shape(@)]]

\* what structural equality (toEqual) compares of v: keys, order, kinds and
\* leaves, not the identity of the objects and arrays in it
Shape(v) ==
  IF ~IsContainer(v) \/ IsCallable(v) THEN v
  ELSE [v EXCEPT !.id = "", !.own = ShapeOfEntries(@),
                 !.proto = ShapeOfEntries(@),
                 !.items = [i \in 1..Len(v.items) |-> Shape(v.items[i])]]

\* C11: for every plain-data object graph g (no callables, no accessors),
\* plainDeepClone(g) is structurally equal to g: the same keys at every
\* depth, arrays stay arrays of the same length and order, the same leaves.
C11_CloneEqualsGraph ==
  (direct.fn = "plainDeepClone" /\ IsPlainData(direct.target))
    => Shape(direct.result) = Shape(direct.target)

\* C12: for every plain-data object t, deepMerge(t, plainDeepClone(t))
\* leaves t structurally unchanged: the same keys and the same values at
\* every depth.
C12_MergeOfCloneChangesNothing ==
  (direct.fn = "mergeOfClone" /\ IsPlainData(direct.target))
    => direct.ok /\ Shape(direct.result) = Shape(direct.target)

\* the keys deepMerge visits in source
Members(source) == Range(ForInKeys(source))

RECURSIVE OverData(_, _)

\* no key of source names an accessor member of target, at any depth the
\* merge goes to
OverData(target, source) ==
  \A k \in Members(source) :
    /\ ~IsAccessor(Resolve(target, k).val)
    /\ (Get(source, k).t = "object" /\ IsContainer(Get(target, k)))
         => OverData(Get(target, k), Get(source, k))

RECURSIVE SourceShown(_, _, _)

\* the member r of the result is what the statement makes of the prior
\* member p and the source member v: the union where both are non-array
\* objects, and else the source's value
SourceShownAt(r, p, v) ==
  IF p.t = "object" /\ v.t = "object" THEN SourceShown(r, p, v) ELSE r = v

\* the object r has the union of the keys of p and v, the source's value on
\* the keys of v and the prior value on the keys only p has
SourceShown(r, p, v) ==
  /\ AllKeys(r) = AllKeys(p) \cup Members(v)
  /\ \A k \in Members(v) : SourceShownAt(Get(r, k), Get(p, k), Get(v, k))
  /\ \A k \in AllKeys(p) \ Members(v) : Get(r, k) = Get(p, k)

RECURSIVE Reflected(_, _, _)

\* as SourceShownAt, but a null in source leaves a truthy member as it was,
\* and nothing is said of an object over a truthy member that holds no
\* members of its own
ReflectedAt(r, p, v) ==
  IF v = Null /\ Truthy(p) THEN r = p
  ELSE IF v.t = "object" /\ Truthy(p) /\ ~IsContainer(p) THEN TRUE
  ELSE IF v.t = "object" /\ IsContainer(p) THEN Reflected(r, p, v)
  ELSE r = v

Reflected(r, p, v) ==
  /\ AllKeys(r) = AllKeys(p) \cup Members(v)
  /\ \A k \in Members(v) : ReflectedAt(Get(r, k), Get(p, k), Get(v, k))
  /\ \A k \in AllKeys(p) \ Members(v) : Get(r, k) = Get(p, k)

RECURSIVE ArraysReplaced(_, _, _)

\* the member r of the result, for the prior member p and the source member
\* v: the array v itself, and below an object merged into a container the
\* same for its members
ArrayReplacedAt(r, p, v) ==
  /\ IsArray(v) => r = v
  /\ (v.t = "object" /\ IsContainer(p)) => ArraysReplaced(r, p, v)

ArraysReplaced(r, p, v) ==
  \A k \in Members(v) : ArrayReplacedAt(Get(r, k), Get(p, k), Get(v, k))

\* C14: whenever a source member is an array, deepMerge replaces the target
\* member wholesale with that array, whatever the target held (array,
\* object, primitive or nothing); no element of the old array survives and
\* arrays are never merged element by element.
C14_ArraysReplaced ==
  (direct.fn = "deepMerge" /\ direct.ok)
    => ArraysReplaced(direct.result, direct.target, direct.source)

\* { a: 1, b: { x: 1, y: 2 }, list: [1, 2] } merged with
\* { b: [7], a: [8], n: [[1]] } and with { ..., list: [9] }
C14_Witness ==
  /\ direct.fn = "deepMerge" /\ direct.ok /\ direct.target.id = "t1"
  /\ \/ /\ direct.source.id = "s5"
        /\ Shape(Get(direct.result, "b")) = Arr(<<Num(7)>>)
        /\ Shape(Get(direct.result, "a")) = Arr(<<Num(8)>>)
        /\ Get(direct.result, "n") = Get(direct.source, "n")
     \/ /\ direct.source.id = "s2"
        /\ Shape(Get(direct.result, "list")) = Arr(<<Num(9)>>)

RECURSIVE FalsyOverridden(_, _, _)

\* the member r of the result, for the prior member p and the source member
\* v: v when p was falsy, p when it was truthy and v is null, and below an
\* object merged into a container the same for its members
FalsyOverriddenAt(r, p, v) ==
  /\ ~Truthy(p) => r = v
  /\ (v = Null /\ Truthy(p)) => r = p
  /\ (v.t = "object" /\ IsContainer(p)) => FalsyOverridden(r, p, v)

FalsyOverridden(r, p, v) ==
  \A k \in Members(v) : FalsyOverriddenAt(Get(r, k), Get(p, k), Get(v, k))

\* C15: if the target member is falsy (absent, null, undefined, false, 0,
\* the empty string), deepMerge assigns the source value whatever it is; if
\* the source value is null and the target member is truthy, the target
\* member keeps its prior value.  (Members are data members: no key of
\* source names an accessor of target.)
C15_FalsyOverriddenNullIgnored ==
  (direct.fn = "deepMerge" /\ direct.ok
     /\ OverData(direct.target, direct.source))
    => FalsyOverridden(direct.result, direct.target, direct.source)

\* { a: 1, b: { x: 1, y: 2 }, list: [1, 2] } merged with
\* { a: null, b: null, c: null }: a and b stay, the absent c becomes null
C15_Witness ==
  /\ direct.fn = "deepMerge" /\ direct.ok
  /\ direct.target.id = "t1" /\ direct.source.id = "s3"
  /\ Get(direct.result, "a") = Num(1)
  /\ Get(direct.result, "b") = Get(direct.target, "b")
  /\ "c" \in AllKeys(direct.result) /\ Get(direct.result, "c") = Null

\* a key under which source holds a non-array object and target a truthy
\* value that is not a container (a non-empty string, a non-zero number)
ObjectOverPrimitive(target, source) ==
  \E k \in Members(source) :
    /\ Get(source, k).t = "object"
    /\ Truthy(Get(target, k)) /\ ~IsContainer(Get(target, k))

\* C16: if a source member is object-like and not an array while the target
\* member is a truthy value that is not a mutable container, deepMerge
\* surfaces a failure to its caller; it never silently coerces the target
\* or silently ignores the source member.
C16_ObjectOverPrimitiveFails ==
  (direct.fn = "deepMerge"
     /\ ObjectOverPrimitive(direct.target, direct.source))
    => ~direct.ok

RECURSIVE Containers(_)

\* the containers the entries of a property list hold, at any depth
ContainersOf(entries) ==
  UNION {Containers(entries[i].val) : i \in 1..Len(entries)}

\* the objects, arrays and functions v holds at any depth, v included
Containers(v) ==
  IF ~IsContainer(v) THEN {}
  ELSE {v} \cup ContainersOf(v.own) \cup ContainersOf(v.proto)
       \cup UNION {Containers(v.items[i]) : i \in 1..Len(v.items)}

\* the identities of the containers of v
Identities(v) == {c.id : c \in Containers(v)}

\* every object of source that the result holds is as it was in source:
\* an object of source changed by the merge shows in the result, where
\* the merge made the change
SourceAsBefore(result, source) ==
  \A r \in Containers(result), s \in Containers(source) :
    r.id = s.id => r = s

RECURSIVE IdentityKept(_, _, _)

\* where the merge recursed (v a non-array object, the prior member p a
\* container), the member r of the result is the object p was, and the
\* same holds below it
IdentityKeptAt(r, p, v) ==
  (v.t = "object" /\ IsContainer(p))
    => r.id = p.id /\ IdentityKept(r, p, v)

IdentityKept(r, p, v) ==
  \A k \in Members(v) : IdentityKeptAt(Get(r, k), Get(p, k), Get(v, k))

\* C18: whenever deepMerge recurses into a key (source value a non-array
\* object, target member truthy), the nested container of target keeps its
\* identity: a reference to target[key] taken before the merge is the same
\* object after it and shows the merged members; the identity of the
\* top-level target is always kept.
C18_IdentityKept ==
  direct.fn = "deepMerge"
    => /\ direct.result.id = direct.target.id
       /\ IdentityKept(direct.result, direct.target, direct.source)
       /\ (direct.ok /\ OverData(direct.target, direct.source))
            => Reflected(direct.result, direct.target, direct.source)

\* { b: { x: { p: 1 }, y: 2 } } merged with { b: { x: { q: 2 }, y: [3] } }:
\* b and b.x are the objects they were, and b.x shows q
C18_Witness ==
  /\ direct.fn = "deepMerge" /\ direct.ok
  /\ direct.target.id = "t7" /\ direct.source.id = "s7"
  /\ direct.result.id = "t7"
  /\ Get(direct.result, "b").id = "t7.b"
  /\ Get(Get(direct.result, "b"), "x").id = "t7.b.x"
  /\ Get(Get(Get(direct.result, "b"), "x"), "q") = Num(2)
  /\ Get(Get(Get(direct.result, "b"), "x"), "p") = Num(1)

\* C19: for every target t, deepMerge(t, {}) leaves t unchanged: no key is
\* added, removed or reassigned at any depth.
C19_EmptySourceChangesNothing ==
  (direct.fn = "deepMerge" /\ Shape(direct.source) = Obj(<<>>))
    => direct.ok /\ direct.result = direct.target

\* the class instance merged with {}
C19_Witness ==
  /\ direct.fn = "deepMerge" /\ Shape(direct.source) = Obj(<<>>)
  /\ Shape(direct.target) = Widget
  /\ direct.result = direct.target

\* the property under every key of t is the one t had, the value under
\* every key of s is the one s has, and there is no other key
UnionOf(r, t, s) ==
  /\ AllKeys(r) = AllKeys(t) \cup Members(s)
  /\ \A k \in AllKeys(t) : Resolve(r, k) = Resolve(t, k)
  /\ \A k \in Members(s) : Get(r, k) = Get(s, k)

\* C20: for every t and s whose top-level key sets are disjoint,
\* deepMerge(t, s) yields a t whose key set is the union of both, with the
\* prior values of t on the keys of t and the values of s on the keys of s.
C20_DisjointUnion ==
  (direct.fn = "deepMerge"
     /\ AllKeys(direct.target) \cap Members(direct.source) = {})
    => direct.ok /\ UnionOf(direct.result, direct.target, direct.source)

\* { a: 1, b: { x: 1, y: 2 }, list: [1, 2] } merged with
\* { p: 1, q: { r: 1 }, u: undefined }: six keys
C20_Witness ==
  /\ direct.fn = "deepMerge" /\ direct.ok
  /\ direct.target.id = "t1" /\ direct.source.id = "s6"
  /\ AllKeys(direct.result) = {"a", "b", "list", "p", "q", "u"}
  /\ Get(direct.result, "b") = Get(direct.target, "b")
  /\ Get(direct.result, "q") = Get(direct.source, "q")
  /\ Get(direct.result, "u") = Undefined

(***************************************************************************)
(* Reference cycles.                                                       *)
(***************************************************************************)
RECURSIVE Levels(_)

\* the number of objects v holds one inside the other under the key self
Levels(v) == IF ~IsContainer(v) THEN 0 ELSE 1 + Levels(Get(v, "self"))

RECURSIVE EndOf(_)

\* the value in which the objects nested under self end
EndOf(v) == IF ~IsContainer(v) THEN v ELSE EndOf(Get(v, "self"))

\* the merge went below the levels to which the source is unfolded: an
\* object that is not the source's holds what lies below them
Overran(result) ==
  \E c \in Containers(result) : c.id # "cyc" /\ Get(c, "self") = Beyond

\* C21 as stated: for every target, merging a source graph that contains a
\* reference cycle recurses without bound and never returns normally.
C21_CycleNeverReturns ==
  direct.fn = "mergeOfCycle" => ~direct.ok \/ Overran(direct.result)

\* C21 (amended): deepMerge has no cycle detection; merging a source with a
\* reference cycle recurses as deep as the target holds objects under the
\* keys of the cycle, so without bound when the target holds them at every
\* depth (a target with the same cycle), and not below the first level at
\* which the target holds none.
C21_CycleFollowedAlongTarget ==
  direct.fn = "mergeOfCycle"
    => (Overran(direct.result)
          <=> Levels(direct.target) >= Levels(direct.source))

\* target.self = target merged with source.self = source, unfolded as far
\* as the model goes: the merge went below every level
C21_Witness ==
  /\ direct.fn = "mergeOfCycle"
  /\ Levels(direct.target) > MaxDepth
  /\ Levels(direct.source) = MaxDepth
  /\ Overran(direct.result)

DecodeFails(opt, store) ==
  ~Truthy(opt.skipCache) /\ ~DbGet(opt.db, store, FullKey(opt)).ok

\* C23: if the store's get fails to decode the stored string during
\* cache(), the failure propagates to the caller of cache(): it is not
\* swallowed or replaced by an empty snapshot, and no Live State is
\* returned (nothing is wrapped, observed, merged or written).
C23_DecodeFailurePropagates ==
  [][\A o \in Orchs :
       (pc[o] = "new" /\ pc'[o] # "new"
          /\ DecodeFails(Destructure(call'[o].keyOrOptions, window), storage))
         => /\ pc'[o] = "failed"
            /\ live'[o] = Undefined /\ trace'[o].returned = Undefined
            /\ trace'[o].gets = 1
            /\ trace'[o].wraps = 0 /\ trace'[o].observes = 0
            /\ ~listening'[o]
            /\ initial'[o] = call'[o].initialObject
            /\ storage' = storage]_vars

\* cache('k', ...) called while the slot holds the text hello
C23_Witness ==
  /\ pc["A"] = "failed" /\ call["A"] = StringCall
  /\ storage[DEFAULT_PREFIX \o "k"] = Item(StoredGarbage)
  /\ trace["A"].gets = 1 /\ trace["A"].getKey = DEFAULT_PREFIX \o "k"
  /\ live["A"] = Undefined /\ ~listening["A"]

\* C24: if the store's set fails inside the change listener, the failure
\* propagates out of the change notification: the engine does not catch
\* it, does not retry the write and does not recover silently (set was
\* called once, nothing was written, the listener stays registered and the
\* next notification calls set again).
C24_SetFailurePropagates ==
  [][\A o \in Orchs :
       (pending[o] /\ ~pending'[o] /\ DbSetThrows(Opt(o).db))
         => /\ trace'[o].raised = trace[o].raised + 1
            /\ trace'[o].sets = trace[o].sets + 1
            /\ trace'[o].setValue = plainDeepClone(live[o])
            /\ storage' = storage
            /\ live'[o] = live[o] /\ listening'[o]]_vars

\* two mutations delivered one by one to a store whose set throws
C24_Witness ==
  /\ pc["A"] = "live" /\ call["A"] = FailingCall
  /\ nmut["A"] = 2 /\ ~pending["A"]
  /\ trace["A"].sets = 2 /\ trace["A"].raised = 2
  /\ \A k \in StoreKeys : storage[k] = Absent

(***************************************************************************)
(* cacheFactory.                                                           *)
(***************************************************************************)
\* the options cache() destructures
OptionNames ==
  {"key", "prefix", "skipCache", "db", "proxyFunction", "subscribeFunction"}

\* the options object o specifies the option x
Specifies(o, x) == Position(o.own, x) # 0

\* the value the options given at the call (given) and at the factory
\* (factoryOptions) leave for the option x: the call's when it specifies x
Chosen(given, factoryOptions, x) ==
  IF Specifies(given, x) THEN Get(given, x) ELSE Get(factoryOptions, x)

\* the options passed on to cache() hold, for every option, the value of
\* the call when the call specifies it and else the factory's
PassedOn(passed, given, factoryOptions) ==
  \A x \in OptionNames : Get(passed, x) = Chosen(given, factoryOptions, x)

\* C25: a function produced by cacheFactory(f) behaves like cache with f's
\* proxyFunction and subscribeFunction pre-bound, in the string-key and in
\* the options-object call form: an option the per-call options specify
\* always overrides the factory's value for it, and an option only the
\* factory specifies is the one used.
C25_CallOverridesFactory ==
  direct.fn = "cacheFactory"
    => /\ PassedOn(direct.result, OptionsOf(direct.source), direct.target)
       /\ Destructure(direct.result, TRUE).proxyFunction =
            Option(Chosen(OptionsOf(direct.source), direct.target,
                          "proxyFunction"), Fn("proxy"))
       /\ Destructure(direct.result, TRUE).subscribeFunction =
            Option(Chosen(OptionsOf(direct.source), direct.target,
                          "subscribeFunction"), Fn("subscribe"))
       /\ TypeOf(direct.source) = "string"
            => Destructure(direct.result, TRUE).key = direct.source

\* the factory binds both functions, the call names its own proxyFunction:
\* the call's proxyFunction and the factory's subscribeFunction are used
C25_Witness ==
  /\ direct.fn = "cacheFactory"
  /\ Get(direct.target, "proxyFunction") = Fn("factoryProxy")
  /\ Get(direct.source, "proxyFunction") = Fn("instanceProxy")
  /\ Destructure(direct.result, TRUE).proxyFunction = Fn("instanceProxy")
  /\ Destructure(direct.result, TRUE).subscribeFunction = Fn("factorySubscribe")
  /\ Destructure(direct.result, TRUE).key = Str("k")

(***************************************************************************)
(* The durable adapter called by itself.                                   *)
(***************************************************************************)
\* C26: for every JSON-encodable non-string value v (objects, arrays,
\* numbers, booleans), LocalStorageDB.get(k) after LocalStorageDB.set(k, v)
\* returns a value structurally equal to v, and get on a key that was never
\* set returns null.
C26_SetThenGet ==
  /\ (direct.fn = "setThenGet" /\ TypeOf(direct.source) # "string")
       => direct.ok /\ direct.result = direct.source
  /\ direct.fn = "get" => direct.ok /\ direct.result = Null

\* an object with a nested object read back
C26_Witness ==
  /\ direct.fn = "setThenGet" /\ direct.ok
  /\ direct.source = Profile /\ direct.result = Profile
  /\ storage["k"] = Encoded(Profile)

\* the string s is a JSON text as it stands
IsJSONText(s) == s \in {"null", "true", "false"} \/ IsNumeral(s)

OwnUnder(o, k) ==
  IF IsElement(o, k) THEN {Prop(k, o.items[IndexOf(k) + 1])}
  ELSE {e \in Range(o.own) : e.k = k}
\* the member does not resolve to a callable value, own or inherited
NotCallable(o, k) == ~IsCallable(Get(o, k))
\* the own property e has a getter or a setter
HasGetterOrSetter(e) == IsAccessor(e.val) /\ (e.val.get # "" \/ e.val.set # "")

\* C28: isPlainField(target, key) is true if and only if the member does
\* not resolve to a callable value (own or inherited), its own property
\* descriptor, when one exists, has neither a getter nor a setter, and its
\* descriptor value is not callable; a member with no own descriptor and a
\* non-callable value (absent or inherited data) is classified plain.
C28_PlainIffNoFunctionNoAccessor ==
  direct.fn = "isPlainField" =>
    /\ direct.ok
    /\ direct.result = Bool(
         /\ NotCallable(direct.target, direct.source.s)
         /\ \A e \in OwnUnder(direct.target, direct.source.s) :
              ~HasGetterOrSetter(e) /\ ~IsCallable(e.val))
    /\ (OwnUnder(direct.target, direct.source.s) = {}
        /\ NotCallable(direct.target, direct.source.s))
         => direct.result = Bool(TRUE)

\* an inherited method is not plain, though the object has no own
\* descriptor for it
C28_Witness ==
  /\ direct.fn = "isPlainField" /\ direct.target = Gadget
  /\ direct.source = Str("reset")
  /\ OwnUnder(Gadget, "reset") = {}
  /\ direct.result = Bool(FALSE)

(***************************************************************************)
(* Two orchestrations under different keys.                                *)
(***************************************************************************)
Other(o) == IF o = "A" THEN "B" ELSE "A"
\* both orchestrations are live on the durable store, under different keys
Apart ==
  /\ \A o \in Orchs : pc[o] = "live" /\ listening[o]
                      /\ Opt(o).db = LocalStorageDB
  /\ FullKey(Opt("A")) # FullKey(Opt("B"))
\* the step is an assignment into the Live State of o, or the run of the
\* listener that the assignment caused
StepOf(o) == nmut'[o] # nmut[o] \/ trace'[o].sets # trace[o].sets
\* the step leaves everything of orchestration o as it is
Untouched(o) ==
  /\ live'[o] = live[o] /\ initial'[o] = initial[o]
  /\ pending'[o] = pending[o] /\ trace'[o] = trace[o]
  /\ storage'[FullKey(Opt(o))] = storage[FullKey(Opt(o))]
  /\ writes'[FullKey(Opt(o))] = writes[FullKey(Opt(o))]

\* C29: orchestrations with different namespace keys on the same store are
\* independent: a mutation of one Live State changes neither the other Live
\* State nor the other's store slot, and causes writes only under its own
\* key.
C29_DifferentKeysIndependent ==
  [][\A o \in Orchs :
       (Apart /\ StepOf(o)) =>
         /\ Untouched(Other(o))
         /\ \A k \in StoreKeys :
              (writes'[k] # writes[k] \/ storage'[k] # storage[k])
                => k = FullKey(Opt(o))]_vars

\* both have been mutated and have written, each under its own key
C29_Witness ==
  /\ Apart
  /\ \A o \in Orchs : /\ nmut[o] = 1 /\ trace[o].sets = 1 /\ ~pending[o]
                      /\ trace[o].setKey = FullKey(Opt(o))
                      /\ writes[FullKey(Opt(o))] = 1
                      /\ storage[FullKey(Opt(o))] = Encoded(plainDeepClone(live[o]))
  /\ live["A"] # live["B"]

(***************************************************************************)
(* The snapshot leaves the state alone.                                    *)
(***************************************************************************)
\* the step is a run of the change listener of A
ListenerRan == trace'["A"].sets # trace["A"].sets

Restored(o) == pc[o] = "live" /\ ~Truthy(Opt(o).skipCache)

\* C31: in a non-skipped cache call the steps happen exactly once each and
\* in this order: store get, in-place merge into the initial object,
\* proxyFunction on the merged object, subscribeFunction registration; the
\* listener is registered on the very object that cache returns, and because
\* the merge precedes the start of observation, restoring a stored snapshot
\* never causes a write.
C31_StepsInOrder ==
  Restored("A") =>
    /\ trace["A"].gets = 1 /\ trace["A"].wraps = 1 /\ trace["A"].observes = 1
    /\ trace["A"].getKey = FullKey(Opt("A"))
    /\ trace["A"].wrapArg =
         deepMerge(call["A"].initialObject, SourceOf(trace["A"].got)).obj
    /\ trace["A"].observed = proxy(trace["A"].wrapArg)
    /\ trace["A"].returned = trace["A"].observed
    /\ listening["A"]
    /\ nmut["A"] = 0 => /\ trace["A"].sets = 0 /\ ~pending["A"]
                        /\ live["A"] = trace["A"].returned

\* a stored snapshot was restored over the initial object and nothing was
\* written
C31_Witness ==
  /\ Restored("A") /\ nmut["A"] = 0
  /\ Truthy(trace["A"].got)
  /\ trace["A"].wrapArg # call["A"].initialObject
  /\ Get(trace["A"].returned, "count") = Num(4)
  /\ trace["A"].sets = 0 /\ ~pending["A"]

(***************************************************************************)
(* The snapshot and the state it was taken from.                           *)
(***************************************************************************)
\* the identities of the containers of v that have one
Named(v) == Identities(v) \ {""}

\* C32: the snapshot produced by plainDeepClone and passed to set shares no
\* object or array with Live State at any depth: a later mutation of Live
\* State never changes a snapshot already handed to the store.
C32_SnapshotSharesNothing ==
  direct.fn = "plainDeepClone" =>
    Named(direct.result) \cap Named(direct.target) = {}

\* the objects and arrays (typeof 'object') of the snapshot are all its own
C32_SharesNoObjectOrArray ==
  direct.fn = "plainDeepClone" =>
    \A c \in Containers(direct.result) :
      (c.id # "" /\ c.id \in Named(direct.target)) => IsCallable(c)

(***************************************************************************)
(* A merge that fails half way.                                            *)
(***************************************************************************)
\* the cache() call of A got a snapshot from the store and failed in the
\* merge
MergeFailed == pc["A"] = "failed" /\ Truthy(trace["A"].got)
\* the object that holds the first n members of source
FirstKeys(source, n) == [source EXCEPT !.own = SubSeq(@, 1, n)]
\* the position in source of the key at which the merge into target fails
FailsAt(target, source) ==
  CHOOSE n \in 1..Len(source.own) :
    /\ ~deepMerge(target, FirstKeys(source, n)).ok
    /\ \A m \in 0..(n - 1) : deepMerge(target, FirstKeys(source, m)).ok
\* the member e of source is assigned to target, not merged into it
DirectlyAssigned(target, e) ==
  IsArray(e.val) \/ TypeOf(e.val) # "object" \/ ~Truthy(Get(target, e.k))
\* every member that source holds before position n and that is assigned
\* to target shows in after
KeptBefore(target, source, n, after) ==
  \A i \in 1..(n - 1) :
    DirectlyAssigned(target, source.own[i])
      => Get(after, source.own[i].k) = source.own[i].val

\* C33: deepMerge has no rollback: when it fails at some key, every target
\* member assigned for keys processed before the failing key keeps its new
\* value; inside cache such a failure aborts the call before proxyFunction
\* and subscribeFunction are invoked, leaving the caller's initial object
\* partially merged.
C33_NoRollback ==
  MergeFailed =>
    /\ ~deepMerge(call["A"].initialObject, trace["A"].got).ok
    /\ KeptBefore(call["A"].initialObject, trace["A"].got,
                  FailsAt(call["A"].initialObject, trace["A"].got),
                  initial["A"])
    /\ trace["A"].wraps = 0 /\ trace["A"].observes = 0 /\ trace["A"].sets = 0
    /\ trace["A"].returned = Undefined /\ live["A"] = Undefined
    /\ ~listening["A"] /\ ~pending["A"]

\* { count: 3, name: { a: 1 } } over { count: 0, name: 'n', .. }: count was
\* assigned before the merge failed at name
C33_Witness ==
  /\ MergeFailed
  /\ FailsAt(call["A"].initialObject, trace["A"].got) = 2
  /\ Get(call["A"].initialObject, "count") = Num(0)
  /\ Get(initial["A"], "count") = Num(3)
  /\ Get(initial["A"], "name") = Str("n")
  /\ trace["A"].wraps = 0

(***************************************************************************)
(* Other writers after construction.                                       *)
(***************************************************************************)
\* the step is a write of another writer
OtherWrote == nforeign' # nforeign

\* C34: the engine reads the store only at construction: after cache
\* returns, get is never called again for that orchestration, so a change
\* made to the slot by another writer is never reflected in Live State and
\* is overwritten in full by the orchestration's next write.
C34_ReadOnlyAtConstruction ==
  [][pc["A"] = "live" =>
       /\ trace'["A"].gets = trace["A"].gets
       /\ trace'["A"].got = trace["A"].got
       /\ OtherWrote => live' = live /\ pending' = pending
       /\ (ListenerRan /\ Durable("A")) =>
            storage'[FullKey(Opt("A"))] = Encoded(plainDeepClone(live["A"]))]_vars

\* another writer filled the slot after cache() had read it empty; the next
\* write of the orchestration left nothing of that text
C34_Witness ==
  /\ pc["A"] = "live" /\ Durable("A")
  /\ trace["A"].gets = 1 /\ trace["A"].got = Null /\ trace["A"].readAt = 0
  /\ nforeign = 1
  /\ trace["A"].sets = 1 /\ trace["A"].wroteAt = 2
  /\ Get(live["A"], "extra") = Undefined
  /\ storage[FullKey(Opt("A"))] = Encoded(plainDeepClone(live["A"]))

(***************************************************************************)
(* Keys of the stored snapshot that the initial object does not have.      *)
(***************************************************************************)
\* the keys of the snapshot got that initialObject has no member for
StaleKeys(got, initialObject) ==
  IF ~IsContainer(got) THEN {}
  ELSE {k \in Range(ObjectKeys(got)) : ~Resolve(initialObject, k).found}

\* C35: stale keys are never pruned: a plain-data key that is present in
\* the stored snapshot but absent from the initial object is added to Live
\* State at restore and is contained in every later snapshot written to the
\* store, until application code removes it from Live State.
C35_StaleKeysKept ==
  Restored("A") =>
    \A k \in StaleKeys(trace["A"].got, call["A"].initialObject) :
      /\ Get(trace["A"].returned, k) = Get(trace["A"].got, k)
      /\ Resolve(live["A"], k).found
      /\ trace["A"].sets > 0 => k \in Range(ObjectKeys(trace["A"].setValue))
      /\ (trace["A"].sets > 0 /\ ~pending["A"]) =>
           Get(trace["A"].setValue, k) = Get(live["A"], k)

\* 'extra' came from the stored snapshot, the initial object has no such
\* member, and the snapshot written after an assignment to count holds it
C35_Witness ==
  /\ Restored("A")
  /\ "extra" \in StaleKeys(trace["A"].got, call["A"].initialObject)
  /\ Get(call["A"].initialObject, "extra") = Undefined
  /\ Get(live["A"], "count") = Num(5)
  /\ trace["A"].sets = 1 /\ ~pending["A"]
  /\ Get(trace["A"].setValue, "extra") = Str("x")
  /\ Get(trace["A"].setValue, "count") = Num(5)

(***************************************************************************)
(* A store whose get throws.                                               *)
(***************************************************************************)
\* db.get was called for A and threw: no value was got
GetThrew == trace["A"].gets = 1 /\ trace["A"].got = Undefined

\* C36: if the store's get throws during cache, the caller's initial object
\* is left completely unmodified and proxyFunction, subscribeFunction and
\* set are never called for that orchestration.
C36_GetThrowsNothingDone ==
  GetThrew =>
    /\ pc["A"] = "failed"
    /\ initial["A"] = call["A"].initialObject
    /\ trace["A"].wraps = 0 /\ trace["A"].observes = 0 /\ trace["A"].sets = 0
    /\ trace["A"].wrapArg = Undefined /\ trace["A"].observed = Undefined
    /\ ~listening["A"] /\ ~pending["A"]
    /\ writes[trace["A"].getKey] = nforeign

\* the slot holds the text hello, get threw on it, and the class instance
\* the caller passed has its field, getter and methods as before
C36_Witness ==
  /\ GetThrew /\ pc["A"] = "failed"
  /\ storage[trace["A"].getKey] = Item(StoredGarbage)
  /\ call["A"] = WidgetCall
  /\ initial["A"] = Widget
  /\ trace["A"].wraps = 0 /\ trace["A"].sets = 0

(***************************************************************************)
(* After a set that threw.                                                 *)
(***************************************************************************)
\* A is live on a store whose set throws, and a set has thrown already
SetHasThrown ==
  /\ pc["A"] = "live" /\ DbSetThrows(Opt("A").db)
  /\ trace["A"].raised > 0
\* the step delivers a notification of A
Delivered == pending["A"] /\ ~pending'["A"] /\ nmut' = nmut

\* C37: after a set failure inside the change listener, Live State keeps
\* the mutation that triggered the write (no rollback), the store slot keeps
\* its previous content, the listener stays registered, and the next
\* notification makes exactly one new set attempt with the then-current
\* snapshot.
C37_AfterSetFailure ==
  [][SetHasThrown =>
       /\ live["A"] # trace["A"].returned
       /\ listening["A"] /\ listening'["A"]
       /\ nforeign' = nforeign => storage' = storage
       /\ nmut' # nmut => pending'["A"]
       /\ Delivered =>
            /\ trace'["A"].sets = trace["A"].sets + 1
            /\ trace'["A"].raised = trace["A"].raised + 1
            /\ trace'["A"].setKey = FullKey(Opt("A"))
            /\ trace'["A"].setValue = plainDeepClone(live["A"])
            /\ live' = live]_vars

\* after the first failure a second assignment was made and its
\* notification made the second attempt, with both assignments in the
\* snapshot and nothing in the slot
C37_Witness ==
  /\ SetHasThrown /\ ~pending["A"]
  /\ nmut["A"] = 2 /\ trace["A"].sets = 2 /\ trace["A"].raised = 2
  /\ Get(trace["A"].setValue, "count") = Num(5)
  /\ Get(Get(trace["A"].setValue, "cfg"), "theme") = Num(2)
  /\ trace["A"].setValue = plainDeepClone(live["A"])
  /\ storage[FullKey(Opt("A"))] = Absent /\ nforeign = 0

(***************************************************************************)
(* What deepMerge places into target.                                      *)
(***************************************************************************)
\* the members of source that are objects or arrays and that the merge
\* into target assigns to a data member of target (what an accessor of
\* target reads depends on the members assigned before it)
Placed(target, source) ==
  {e \in Range(source.own) :
     e.enum /\ IsContainer(e.val) /\ ~IsCallable(e.val)
     /\ ~IsAccessor(Resolve(target, e.k).val)
     /\ DirectlyAssigned(target, e)}

\* C38: deepMerge copies nothing: every object or array that the
\* direct-assignment rule places into target is the source's own container
\* (same identity), so after deepMerge(t, s1) a later deepMerge(t, s2) that
\* recurses into such a key mutates s1's nested container.
C38_SourceContainersPlaced ==
  /\ (direct.fn = "deepMerge" /\ direct.ok) =>
       \A e \in Placed(direct.target, direct.source) :
         Get(direct.result, e.k).id = e.val.id
  /\ (direct.fn = "mergeTwice" /\ direct.ok) =>
       \A e \in Placed(direct.target, direct.source) :
         Resolve(Again, e.k).found =>
           /\ Get(direct.result, e.k).id = e.val.id
           /\ Get(e.val, "z") = Undefined
           /\ Get(Get(direct.result, e.k), "z") = Num(1)

\* {} merged with { a: { k: 1 }, d: { m: 1 }, e: 3 } and then with Again: the
\* source's a is the target's a and has got a member z
C38_Witness ==
  /\ direct.fn = "mergeTwice" /\ direct.ok
  /\ direct.target.id = "t6" /\ direct.source.id = "s4"
  /\ Get(direct.source, "a").id = "s4.a"
  /\ Get(direct.result, "a").id = "s4.a"
  /\ Get(Get(direct.result, "a"), "k") = Num(1)
  /\ Get(Get(direct.result, "a"), "z") = Num(1)

(***************************************************************************)
(* Termination.                                                            *)
(***************************************************************************)
RECURSIVE ReachIn(_, _, _)
\* the objects that the objects of from refer to
Children(h, from) ==
  UNION {{e.val.id : e \in {x \in Range(h[o]) : x.val.t = "ref"}} : o \in from}
\* the objects reached from the objects of from in at most n steps
ReachIn(h, from, n) ==
  IF n = 0 THEN from ELSE ReachIn(h, from \cup Children(h, from), n - 1)
ReachedFrom(h, from) == ReachIn(h, from, Cardinality(DOMAIN h))
\* no object of the heap reaches itself
Acyclic(h) == \A o \in DOMAIN h : o \notin ReachedFrom(h, Children(h, {o}))
\* target and source hold no object in common
Separate(h) == ReachedFrom(h, {"T"}) \cap ReachedFrom(h, {"S"}) = {}

====
